---- MODULE Spec2Model ----
(***************************************************************************)
(* Model of the tool vetting and approval pipeline of the harness broker:  *)
(*   scripts/broker/forge_approval.py    proposal workflow (ForgeApproval) *)
(*   scripts/broker/allowlist_manager.py allowlists and approval requests  *)
(*   scripts/broker/tool_broker.py       runtime call gate (call_tool)     *)
(*   scripts/broker/security_policy.py   rate limit, arguments, budget     *)
(*                                                                         *)
(* Strings on which the code does string work (tool ids, glob patterns,    *)
(* proposal keys) are sequences of one-character strings.  Python's None   *)
(* is the string None for string-valued fields and the empty sequence for  *)
(* optional sequence- or record-valued fields.                             *)
(***************************************************************************)
EXTENDS Integers, Sequences, FiniteSets, TLC

VARIABLES
    proposals,   \* approval_dir: proposal id -> content of <id>.json
    vets,        \* per worker thread: the vet call it is inside of, if any
    vetted,      \* history: the proposal ids vet has ever been started on
    last,        \* the ForgeApproval operation that completed last
    allowlists,          \* AllowlistManager.allowlists (allowlists.json)
    pending_approvals,   \* AllowlistManager.pending_approvals
    now,                 \* the wall clock, in ticks
    answer,              \* the AllowlistManager or ToolBroker call that
                         \* completed last, with the value it returned
    tool_approval_required,  \* security_policy.json: tool_approval_required
    call_history,        \* call_history.json: key -> timestamps of calls
    audit,               \* audit_log.jsonl: the entries, oldest first
    accepted,            \* history: key -> timestamps of the calls that
                         \* check_rate_limit has accepted, oldest first
    rate_reads,          \* per caller: the check_rate_limit call that has
                         \* read call_history.json and not yet written it
    probe,               \* the input a pure function is applied to
    returned,            \* what it returned
    in_flight            \* per caller: the operation it has begun and not
                         \* yet finished, with what it has read so far

forgeVars == <<proposals, vets, vetted, last>>
allowVars == <<allowlists, pending_approvals>>
rateVars == <<accepted, rate_reads>>
pureVars == <<probe, returned>>
callVars == <<tool_approval_required, call_history, audit, rateVars, pureVars, in_flight>>
vars == <<proposals, vets, vetted, last, allowlists, pending_approvals, now, answer,
          tool_approval_required, call_history, audit, accepted, rate_reads,
          probe, returned, in_flight>>

----------------------------------------------------------------------------
(* Bounds and input sets *)

NumServers == 1
NumWorkers == 1
NumCallers == 2

Alphabet == <<"a", "b", "c", "d", "e">>

None == "None"

ServerNames == { <<Alphabet[i]>> : i \in 1..NumServers }
Users == {"alice"}
Workers == 1..NumWorkers
Callers == 1..NumCallers
Verdicts == {"pass", "warn", "fail"}
Reasons == {"unwanted"}

\* f"{version}" of an optional version: None prints as the word None
FormatVersion(version) ==
    IF version = <<>> THEN <<"N", "o", "n", "e">> ELSE version[1]

\* forge_approval.py:50 the proposal id; the sha256 prefix is taken to be
\* collision free, so the id is the hashed key itself
ProposalId(server_name, source, source_id, version) ==
    server_name \o <<":">> \o source \o <<":">> \o source_id \o <<":">>
        \o FormatVersion(version)

\* the proposals the operations are tried on: one package per server name
SourceOf(server_name) == <<"n">>
SourceIdOf(server_name) == <<"p">>
IdOf(server_name) ==
    ProposalId(server_name, SourceOf(server_name), SourceIdOf(server_name), <<>>)
ProposalIds == { IdOf(s) : s \in ServerNames }

Terminal == {"approved", "rejected"}

----------------------------------------------------------------------------
(* ForgeApproval *)

\* forge_approval.py:54 the record propose_server writes
NewProposal(server_name, source, source_id, version) ==
    [ id               |-> ProposalId(server_name, source, source_id, version),
      server_name      |-> server_name,
      source           |-> source,
      source_id        |-> source_id,
      version          |-> version,
      status           |-> "pending",
      approved_by      |-> None,
      rejected_by      |-> None,
      rejection_reason |-> None,
      vetting_status   |-> None,
      vetting_override |-> <<>> ]

\* forge_approval.py:145 _save_proposal: the file is replaced by the caller's copy
SaveProposal(store, proposal) ==
    [ i \in DOMAIN store \cup {proposal.id} |->
        IF i = proposal.id THEN proposal ELSE store[i] ]

\* forge_approval.py:151 get_proposal: <<>> when the file does not exist
GetProposal(store, proposal_id) ==
    IF proposal_id \in DOMAIN store THEN <<store[proposal_id]>> ELSE <<>>

\* forge_approval.py:114 vet marks the copy it read as running
MarkRunning(proposal) == [proposal EXCEPT !.vetting_status = "running"]

\* ApplyVerdict without the auto-reject of forge_approval.py:136
ApplyVerdict_NoAutoReject(proposal, verdict) ==
    [proposal EXCEPT !.vetting_status = verdict]

\* forge_approval.py:126 vet writes the verdict into its copy, and rejects on fail
ApplyVerdict(proposal, verdict) ==
    LET p == [proposal EXCEPT !.vetting_status = verdict]
    IN  IF verdict = "fail"
        THEN [p EXCEPT !.status = "rejected",
                       !.rejected_by = "vetting_pipeline",
                       !.rejection_reason = "verdict_reasons"]
        ELSE p

\* approve whose gate forgets the "vetting has not been run" case of
\* forge_approval.py:192
approve_NoVettingRequired(store, proposal_id, approved_by, override_vetting) ==
    LET got == GetProposal(store, proposal_id) IN
    IF got = <<>> THEN [ret |-> "NotFound", store |-> store]
    ELSE LET proposal == got[1]
             vetting_status == proposal.vetting_status
         IN
         IF proposal.status # "pending"
         THEN [ret |-> "InvalidState", store |-> store]
         ELSE IF vetting_status = "fail" /\ ~override_vetting
         THEN [ret |-> "VettingFailed", store |-> store]
         ELSE LET p1 == [proposal EXCEPT !.status = "approved",
                                         !.approved_by = approved_by]
                  p2 == IF override_vetting /\ vetting_status \in {None, "fail"}
                        THEN [p1 EXCEPT !.vetting_override =
                                 << [overridden_by   |-> approved_by,
                                     original_status |-> vetting_status] >>]
                        ELSE p1
              IN  [ret |-> "ok", store |-> SaveProposal(store, p2)]

\* approve that records the override only for a failed vetting, not for a
\* vetting that never ran (forge_approval.py:209)
approve_OverrideOfFailOnly(store, proposal_id, approved_by, override_vetting) ==
    LET got == GetProposal(store, proposal_id) IN
    IF got = <<>> THEN [ret |-> "NotFound", store |-> store]
    ELSE LET proposal == got[1]
             vetting_status == proposal.vetting_status
         IN
         IF proposal.status # "pending"
         THEN [ret |-> "InvalidState", store |-> store]
         ELSE IF vetting_status = None /\ ~override_vetting
         THEN [ret |-> "VettingRequired", store |-> store]
         ELSE IF vetting_status = "fail" /\ ~override_vetting
         THEN [ret |-> "VettingFailed", store |-> store]
         ELSE LET p1 == [proposal EXCEPT !.status = "approved",
                                         !.approved_by = approved_by]
                  p2 == IF override_vetting /\ vetting_status = "fail"
                        THEN [p1 EXCEPT !.vetting_override =
                                 << [overridden_by   |-> approved_by,
                                     original_status |-> vetting_status] >>]
                        ELSE p1
              IN  [ret |-> "ok", store |-> SaveProposal(store, p2)]

\* forge_approval.py:170 approve: the value returned and the store afterwards
approve(store, proposal_id, approved_by, override_vetting) ==
    LET got == GetProposal(store, proposal_id) IN
    IF got = <<>> THEN [ret |-> "NotFound", store |-> store]
    ELSE LET proposal == got[1]
             vetting_status == proposal.vetting_status
         IN
         IF proposal.status # "pending"
         THEN [ret |-> "InvalidState", store |-> store]
         ELSE IF vetting_status = None /\ ~override_vetting
         THEN [ret |-> "VettingRequired", store |-> store]
         ELSE IF vetting_status = "fail" /\ ~override_vetting
         THEN [ret |-> "VettingFailed", store |-> store]
         ELSE LET p1 == [proposal EXCEPT !.status = "approved",
                                         !.approved_by = approved_by]
                  p2 == IF override_vetting /\ vetting_status \in {None, "fail"}
                        THEN [p1 EXCEPT !.vetting_override =
                                 << [overridden_by   |-> approved_by,
                                     original_status |-> vetting_status] >>]
                        ELSE p1
              IN  [ret |-> "ok", store |-> SaveProposal(store, p2)]

\* forge_approval.py:219 reject: the value returned and the store afterwards
reject(store, proposal_id, rejected_by, reason) ==
    LET got == GetProposal(store, proposal_id) IN
    IF got = <<>> THEN [ret |-> "False", store |-> store]
    ELSE LET proposal == got[1] IN
         IF proposal.status # "pending"
         THEN [ret |-> "False", store |-> store]
         ELSE [ret |-> "True",
               store |-> SaveProposal(store,
                   [proposal EXCEPT !.status = "rejected",
                                    !.rejected_by = rejected_by,
                                    !.rejection_reason = reason])]

----------------------------------------------------------------------------
(* AllowlistManager *)

MaxRequests == 2
MaxTime == 1

\* the ApprovalRequest time-to-live of the specification (30 minutes), in ticks
ApprovalTTL == 1

Agents == {"agent1"}
Default == "default"

ServerA == <<Alphabet[1]>>
ToolGet == ServerA \o <<":", "g", "e", "t">>
ToolRun == ServerA \o <<":", "r", "u", "n">>
GlobA   == ServerA \o <<":", "*">>
ToolIds == {ToolGet, ToolRun}

\* the allow and deny lists set_agent_allowlist is called with
AllowChoices == SUBSET {ToolGet, ToolRun, GlobA}
DenyChoices == SUBSET ToolIds

IsPrefix(prefix, text) ==
    /\ Len(prefix) <= Len(text)
    /\ \A k \in 1..Len(prefix) : text[k] = prefix[k]

\* pattern.replace("*", "")
RemoveStars(pattern) == SelectSeq(pattern, LAMBDA c : c # "*")

HasStar(pattern) == \E k \in 1..Len(pattern) : pattern[k] = "*"

\* allowlists.get(agent_id, {}).get(field, []): lists are kept as sets, the
\* code only tests membership and builds sets from them
ConfigList(al, agent_id, field) ==
    IF agent_id \in DOMAIN al THEN al[agent_id][field] ELSE {}

\* allowlist_manager.py:50 get_allowed_tools
get_allowed_tools(al, agent_id) ==
    LET allowed == ConfigList(al, agent_id, "allow") \cup ConfigList(al, Default, "allow")
        denied  == ConfigList(al, agent_id, "deny") \cup ConfigList(al, Default, "deny")
    IN  allowed \ denied

\* allowlist_manager.py:77 is_tool_allowed
is_tool_allowed(al, agent_id, tool_id) ==
    LET allowed_tools == get_allowed_tools(al, agent_id) IN
    \/ tool_id \in allowed_tools
    \/ \E pattern \in allowed_tools :
          HasStar(pattern) /\ IsPrefix(RemoveStars(pattern), tool_id)

EmptyConfig == [allow |-> {}, deny |-> {}, servers |-> {}]

\* allowlist_manager.py:94 set_agent_allowlist (servers left as they are)
set_agent_allowlist(al, agent_id, allow, deny) ==
    LET old == IF agent_id \in DOMAIN al THEN al[agent_id] ELSE EmptyConfig
    IN  [a \in DOMAIN al \cup {agent_id} |->
            IF a = agent_id THEN [old EXCEPT !.allow = allow, !.deny = deny]
            ELSE al[a]]

\* allowlist_manager.py:150 the request id hashes agent, tool and the time of
\* the call; the clock reading of every call is new, here the tick and the
\* number of requests made before
RequestId(agent_id, tool_id, pa) ==
    [agent_id |-> agent_id, tool_id |-> tool_id, at |-> now,
     n |-> Cardinality(DOMAIN pa)]

\* allowlist_manager.py:148 request_approval: the dict of requests afterwards
request_approval(pa, agent_id, tool_id) ==
    LET request_id == RequestId(agent_id, tool_id, pa) IN
    [r \in DOMAIN pa \cup {request_id} |->
        IF r = request_id
        THEN [id |-> request_id, agent_id |-> agent_id, tool_id |-> tool_id,
              status |-> "pending", requested_at |-> now, reason |-> None]
        ELSE pa[r]]

\* allowlist_manager.py:178 get_pending_approvals
get_pending_approvals(pa) ==
    { pa[r] : r \in { x \in DOMAIN pa : pa[x].status = "pending" } }

\* approve_request without the test of the request's status
approve_request_AnyStatus(al, pa, request_id) ==
    IF request_id \notin DOMAIN pa
    THEN [ret |-> "False", al |-> al, pa |-> pa]
    ELSE LET request == pa[request_id]
             agent_id == request.agent_id
             old == IF agent_id \in DOMAIN al THEN al[agent_id] ELSE EmptyConfig
         IN  [ret |-> "True",
              al  |-> [a \in DOMAIN al \cup {agent_id} |->
                         IF a = agent_id
                         THEN [old EXCEPT !.allow = @ \cup {request.tool_id}]
                         ELSE al[a]],
              pa  |-> [pa EXCEPT ![request_id].status = "approved"]]

\* allowlist_manager.py:185 approve_request: the value returned, the
\* allowlists and the requests afterwards
approve_request(al, pa, request_id) ==
    IF request_id \notin DOMAIN pa
    THEN [ret |-> "False", al |-> al, pa |-> pa]
    ELSE LET request == pa[request_id]
             agent_id == request.agent_id
             old == IF agent_id \in DOMAIN al THEN al[agent_id] ELSE EmptyConfig
         IN  IF request.status # "pending"
             THEN [ret |-> "False", al |-> al, pa |-> pa]
             ELSE [ret |-> "True",
                   al  |-> [a \in DOMAIN al \cup {agent_id} |->
                              IF a = agent_id
                              THEN [old EXCEPT !.allow = @ \cup {request.tool_id}]
                              ELSE al[a]],
                   pa  |-> [pa EXCEPT ![request_id].status = "approved"]]

\* allowlist_manager.py:212 reject_request
reject_request(pa, request_id, reason) ==
    IF request_id \notin DOMAIN pa
    THEN [ret |-> "False", pa |-> pa]
    ELSE IF pa[request_id].status # "pending"
    THEN [ret |-> "False", pa |-> pa]
    ELSE [ret |-> "True",
          pa  |-> [pa EXCEPT ![request_id].status = "rejected",
                             ![request_id].reason = reason]]

\* what `answer` records: the call and the value it returned
Answer(op, ret) == [op |-> op, ret |-> ret]

\* the request ids approve_request and reject_request are called with: all
\* that request_approval can have made, whether it has or not
RequestIds ==
    [agent_id : Agents, tool_id : ToolIds, at : 0..MaxTime, n : 0..(MaxRequests - 1)]

SetAgentAllowlist(agent_id, allow, deny) ==
    /\ allowlists' = set_agent_allowlist(allowlists, agent_id, allow, deny)
    /\ answer' = Answer("set_agent_allowlist", "True")
    /\ UNCHANGED <<pending_approvals, now, forgeVars, callVars>>

RequestApproval(agent_id, tool_id) ==
    /\ Cardinality(DOMAIN pending_approvals) < MaxRequests
    /\ pending_approvals' = request_approval(pending_approvals, agent_id, tool_id)
    /\ answer' = Answer("request_approval", "True")
    /\ UNCHANGED <<allowlists, now, forgeVars, callVars>>

ApproveRequest(request_id) ==
    LET r == approve_request(allowlists, pending_approvals, request_id) IN
    /\ allowlists' = r.al
    /\ pending_approvals' = r.pa
    /\ answer' = Answer("approve_request", r.ret)
    /\ UNCHANGED <<now, forgeVars, callVars>>

RejectRequest(request_id, reason) ==
    LET r == reject_request(pending_approvals, request_id, reason) IN
    /\ pending_approvals' = r.pa
    /\ answer' = Answer("reject_request", r.ret)
    /\ UNCHANGED <<allowlists, now, forgeVars, callVars>>

\* time passes
Tick ==
    /\ now < MaxTime
    /\ now' = now + 1
    /\ UNCHANGED <<allowVars, answer, forgeVars, callVars>>

\* allowlist_manager.py:16-41 a fresh AllowlistManager: the default entry
\* only, and no requests
InitAllow ==
    /\ allowlists = [a \in {Default} |-> EmptyConfig]
    /\ pending_approvals = << >>
    /\ now = 0
    /\ answer = Answer("init", "True")
    /\ tool_approval_required = TRUE
    /\ call_history = << >>
    /\ audit = << >>
    /\ accepted = << >>
    /\ rate_reads = [c \in Callers |-> << >>]
    /\ in_flight = [c \in Callers |-> << >>]
    /\ probe = << >>
    /\ returned = << >>

\* the allowlists an administrator can set
AllowNext ==
    \E a \in Agents \cup {Default}, allow \in AllowChoices, deny \in DenyChoices :
        SetAgentAllowlist(a, allow, deny)

\* approval requests being made and resolved while time passes
RequestNext ==
    \/ \E a \in Agents, t \in ToolIds : RequestApproval(a, t)
    \/ \E r \in RequestIds : ApproveRequest(r)
    \/ \E r \in RequestIds, reason \in Reasons : RejectRequest(r, reason)
    \/ Tick

----------------------------------------------------------------------------
(* ForgeApproval: the operations *)

\* what `last` records of an operation: its name, the proposal id it was
\* called with, the status of the stored proposal it read (None when the
\* file did not exist) and the value it returned
Op(op, id, pre, result) == [op |-> op, id |-> id, pre |-> pre, result |-> result]

NoOp == Op("init", <<>>, None, None)

StatusOf(store, proposal_id) ==
    IF proposal_id \in DOMAIN store THEN store[proposal_id].status ELSE None

Idle == <<>>

\* forge_approval.py:106-116 the first half of vet, up to the call of
\* run_vetting: read, mark running, save
VetBegin(store, proposal_id) ==
    LET got == GetProposal(store, proposal_id) IN
    IF got = <<>>
    THEN [store |-> store, vet |-> Idle]
    ELSE [store |-> SaveProposal(store, MarkRunning(got[1])),
          vet   |-> << [id |-> proposal_id,
                        proposal |-> MarkRunning(got[1])] >>]

\* forge_approval.py:33 propose_server without source_path: writes the
\* pending record over whatever the file held
ProposeServer(server_name) ==
    LET p == NewProposal(server_name, SourceOf(server_name),
                         SourceIdOf(server_name), <<>>)
    IN  /\ proposals' = SaveProposal(proposals, p)
        /\ last' = Op("propose", p.id, StatusOf(proposals, p.id), "pending")
        /\ UNCHANGED <<vets, vetted, allowVars, now, answer, callVars>>

\* forge_approval.py:86 propose_server with source_path: the same thread goes
\* on into vet, which marks the new record running and starts the scanners
ProposeServerAndVet(w, server_name) ==
    LET p == NewProposal(server_name, SourceOf(server_name),
                         SourceIdOf(server_name), <<>>)
        b == VetBegin(SaveProposal(proposals, p), p.id)
    IN  /\ vets[w] = Idle
        /\ proposals' = b.store
        /\ vets' = [vets EXCEPT ![w] = b.vet]
        /\ vetted' = vetted \cup {p.id}
        /\ last' = Op("propose_vet", p.id, StatusOf(proposals, p.id), "running")
        /\ UNCHANGED <<allowVars, now, answer, callVars>>

\* forge_approval.py:93 vet called on its own, up to the call of run_vetting
\* (returns None at once when the proposal file does not exist)
VetStart(w, proposal_id) ==
    LET b == VetBegin(proposals, proposal_id) IN
    /\ vets[w] = Idle
    /\ proposals' = b.store
    /\ vets' = [vets EXCEPT ![w] = b.vet]
    /\ vetted' = IF b.vet = Idle THEN vetted ELSE vetted \cup {proposal_id}
    /\ last' = Op(IF b.vet = Idle THEN "vet" ELSE "vet_start", proposal_id,
                  StatusOf(proposals, proposal_id),
                  IF b.vet = Idle THEN None ELSE "running")
    /\ UNCHANGED <<allowVars, now, answer, callVars>>

\* forge_approval.py:119-143 run_vetting returns a report; vet writes its copy
VetFinish(w, verdict) ==
    /\ vets[w] # Idle
    /\ LET v == vets[w][1] IN
        /\ proposals' = SaveProposal(proposals, ApplyVerdict(v.proposal, verdict))
        /\ last' = Op("vet", v.id, v.proposal.status, verdict)
    /\ vets' = [vets EXCEPT ![w] = Idle]
    /\ UNCHANGED <<vetted, allowVars, now, answer, callVars>>

Approve(proposal_id, approved_by, override_vetting) ==
    LET r == approve(proposals, proposal_id, approved_by, override_vetting) IN
    /\ proposals' = r.store
    /\ last' = Op("approve", proposal_id, StatusOf(proposals, proposal_id), r.ret)
    /\ UNCHANGED <<vets, vetted, allowVars, now, answer, callVars>>

Reject(proposal_id, rejected_by, reason) ==
    LET r == reject(proposals, proposal_id, rejected_by, reason) IN
    /\ proposals' = r.store
    /\ last' = Op("reject", proposal_id, StatusOf(proposals, proposal_id), r.ret)
    /\ UNCHANGED <<vets, vetted, allowVars, now, answer, callVars>>

Init ==
    /\ proposals = << >>
    /\ vets = [w \in Workers |-> Idle]
    /\ vetted = {}
    /\ last = NoOp
    /\ InitAllow

Next ==
    \/ \E s \in ServerNames : ProposeServer(s)
    \/ \E w \in Workers, s \in ServerNames : ProposeServerAndVet(w, s)
    \/ \E w \in Workers, i \in ProposalIds : VetStart(w, i)
    \/ \E w \in Workers, v \in Verdicts : VetFinish(w, v)
    \/ \E i \in ProposalIds, u \in Users, o \in BOOLEAN : Approve(i, u, o)
    \/ \E i \in ProposalIds, u \in Users, r \in Reasons : Reject(i, u, r)

Spec == Init /\ [][Next]_vars

\* The same workflow started on an approval directory that already holds
\* proposal files: each id has no file or a pending record with any of the
\* vetting_status values the field is declared to take (forge_approval.py:74)
VettingStatuses == {None, "running", "pass", "warn", "fail"}

StoredPending(server_name, vetting_status) ==
    [NewProposal(server_name, SourceOf(server_name), SourceIdOf(server_name), <<>>)
        EXCEPT !.vetting_status = vetting_status]

InitStored ==
    /\ \E present \in SUBSET ServerNames :
       \E vs \in [present -> VettingStatuses] :
          /\ proposals = [i \in {IdOf(s) : s \in present} |->
                            LET s == CHOOSE s \in present : IdOf(s) = i
                            IN  StoredPending(s, vs[s])]
          /\ vetted = {IdOf(s) : s \in {t \in present : vs[t] # None}}
    /\ vets = [w \in Workers |-> Idle]
    /\ last = NoOp
    /\ InitAllow

SpecStored == InitStored /\ [][Next]_vars

\* The allowlist manager on its own: its configuration, and its requests
SpecAllow == Init /\ [][AllowNext]_vars
SpecRequests == Init /\ [][RequestNext]_vars

----------------------------------------------------------------------------
(* SecurityPolicy and ToolBroker.call_tool *)

MaxAudit == 2

\* a tool no server offers
ToolNew == ServerA \o <<":", "n", "e", "w">>
CallToolIds == ToolIds \cup {ToolNew}

\* the arguments call_tool is tried with: a dict as its (key, value) pairs
NoArgs == << >>
EvalArgs == << [key |-> <<"c">>, value |-> <<"e", "v", "a", "l", "(", "x", ")">>] >>
ArgsChoices == {NoArgs, EvalArgs}

\* arguments that carry a secret: one whose value has a slash in it, one
\* without, and one whose value is a path relative to the workspace
Token == <<"t", "o", "k", "e", "n">>
Password == <<"p", "a", "s", "s", "w", "o", "r", "d">>
SecretArgs ==
    { << [key |-> Token, value |-> <<"s", "/", "k">>] >>,
      << [key |-> Token, value |-> <<"s", "k">>] >>,
      << [key |-> Password, value |-> <<".", "/", "p">>] >> }
AllArgs == ArgsChoices \cup SecretArgs

\* agent_id of a call: an agent, or None when the caller gives none
CallAgents == Agents \cup {None}

Contains(text, word) ==
    \E k \in 0..(Len(text) - Len(word)) :
        \A j \in 1..Len(word) : text[k + j] = word[j]

RECURSIVE JoinPairs(_)
JoinPairs(pairs) ==
    IF pairs = << >> THEN << >>
    ELSE <<"\"">> \o pairs[1].key \o <<"\"", ":", " ", "\"">> \o pairs[1].value \o <<"\"">>
         \o (IF Len(pairs) > 1 THEN <<",", " ">> ELSE << >>)
         \o JoinPairs(Tail(pairs))

\* json.dumps of a dict of strings
JsonDumps(args) == <<"{">> \o JoinPairs(args) \o <<"}">>

\* tool_broker.py:28 _ACTION_PATTERNS: the keywords of each action class
ActionPatterns(action_class) ==
    CASE action_class = "read" ->
            { <<"s", "e", "a", "r", "c", "h">>,
              <<"l", "i", "s", "t">>,
              <<"g", "e", "t">>,
              <<"d", "e", "s", "c", "r", "i", "b", "e">>,
              <<"r", "e", "a", "d">>,
              <<"q", "u", "e", "r", "y">>,
              <<"f", "e", "t", "c", "h">>,
              <<"f", "i", "n", "d">> }
      [] action_class = "write" ->
            { <<"w", "r", "i", "t", "e">>,
              <<"c", "r", "e", "a", "t", "e">>,
              <<"u", "p", "d", "a", "t", "e">>,
              <<"d", "e", "l", "e", "t", "e">>,
              <<"p", "u", "t">>,
              <<"p", "a", "t", "c", "h">>,
              <<"r", "e", "m", "o", "v", "e">>,
              <<"m", "o", "v", "e">>,
              <<"r", "e", "n", "a", "m", "e">> }
      [] action_class = "network" ->
            { <<"h", "t", "t", "p">>,
              <<"c", "u", "r", "l">>,
              <<"f", "e", "t", "c", "h">>,
              <<"r", "e", "q", "u", "e", "s", "t">>,
              <<"d", "o", "w", "n", "l", "o", "a", "d">>,
              <<"u", "p", "l", "o", "a", "d">>,
              <<"s", "e", "n", "d">>,
              <<"p", "o", "s", "t">> }
      [] action_class = "credential" ->
            { <<"a", "u", "t", "h">>,
              <<"t", "o", "k", "e", "n">>,
              <<"s", "e", "c", "r", "e", "t">>,
              <<"k", "e", "y">>,
              <<"p", "a", "s", "s", "w", "o", "r", "d">>,
              <<"c", "r", "e", "d", "e", "n", "t", "i", "a", "l">>,
              <<"l", "o", "g", "i", "n">>,
              <<"o", "a", "u", "t", "h">> }
      [] action_class = "exec" ->
            { <<"e", "x", "e", "c">>,
              <<"r", "u", "n">>,
              <<"s", "h", "e", "l", "l">>,
              <<"c", "o", "m", "m", "a", "n", "d">>,
              <<"s", "p", "a", "w", "n">>,
              <<"e", "v", "a", "l", "u", "a", "t", "e">>,
              <<"i", "n", "t", "e", "r", "p", "r", "e", "t">>,
              <<"c", "o", "m", "p", "i", "l", "e">> }

ActionClasses == <<"read", "write", "network", "credential", "exec">>

\* tool_broker.py:37 _DANGEROUS_ACTIONS
DangerousActions == {"exec", "credential", "network"}

\* tool_broker.py:45 the number of keywords of a class found in the text
Score(combined, action_class) ==
    Cardinality({ kw \in ActionPatterns(action_class) : Contains(combined, kw) })

\* tool_broker.py:40 classify_action; max() returns the first class, in the
\* order of _ACTION_PATTERNS, that has the highest score
classify_action(tool_id, args) ==
    LET combined == tool_id \o <<" ">> \o JsonDumps(args)
        scores == [k \in 1..Len(ActionClasses) |-> Score(combined, ActionClasses[k])]
        best == CHOOSE k \in 1..Len(ActionClasses) :
                  /\ \A j \in 1..Len(ActionClasses) : scores[j] <= scores[k]
                  /\ \A j \in 1..(k - 1) : scores[j] < scores[k]
    IN  IF \A j \in 1..Len(ActionClasses) : scores[j] = 0
        THEN "read"
        ELSE ActionClasses[best]

\* classify_action of every call that is tried, computed once
ActionClassOf == [t \in CallToolIds, a \in AllArgs |-> classify_action(t, a)]

\* the characters of an agent id
AgentText(agent_id) ==
    CASE agent_id = "agent1" -> <<"a", "g", "e", "n", "t", "1">>
      [] agent_id = Default -> <<"d", "e", "f", "a", "u", "l", "t">>

\* security_policy.py:42 the key of a pair in call_history.json
HistoryKey(agent_id, tool_id) == AgentText(agent_id) \o <<":">> \o tool_id

\* the history with one more accepted call of the key
Accept(history, key, t) ==
    [k \in DOMAIN history \cup {key} |->
        IF k = key
        THEN Append(IF key \in DOMAIN history THEN history[key] ELSE << >>, t)
        ELSE history[k]]

\* security_policy.json rate_limits: one pair is limited to one call a
\* tick, one to two calls in two ticks, one to two calls a tick; the others
\* are not limited
RateLimitConfig(agent_id, tool_id) ==
    IF agent_id = "agent1" /\ tool_id = ToolGet
    THEN << [max_calls |-> 1, window_seconds |-> 1] >>
    ELSE IF agent_id = "agent1" /\ tool_id = ToolRun
    THEN << [max_calls |-> 2, window_seconds |-> 2] >>
    ELSE IF agent_id = Default /\ tool_id = ToolGet
    THEN << [max_calls |-> 2, window_seconds |-> 1] >>
    ELSE << >>

LastN(list, n) ==
    IF Len(list) <= n \/ n = 0 THEN list
    ELSE SubSeq(list, Len(list) - n + 1, Len(list))

\* check_rate_limit that rejects only above max_calls
check_rate_limit_OneTooMany(history, agent_id, tool_id) ==
    LET key == HistoryKey(agent_id, tool_id)
        limit_config == RateLimitConfig(agent_id, tool_id)
    IN
    IF limit_config = << >> THEN [allowed |-> TRUE, history |-> history]
    ELSE LET max_calls == limit_config[1].max_calls
             window_seconds == limit_config[1].window_seconds
             calls == IF key \in DOMAIN history THEN history[key] ELSE << >>
             recent_calls == SelectSeq(calls, LAMBDA t : now - t < window_seconds)
         IN  IF Len(recent_calls) > max_calls
             THEN [allowed |-> FALSE, history |-> history]
             ELSE [allowed |-> TRUE,
                   history |-> [k \in DOMAIN history \cup {key} |->
                                  IF k = key
                                  THEN LastN(Append(recent_calls, now), max_calls)
                                  ELSE history[k]]]

\* security_policy.py:40 check_rate_limit: whether the call is allowed, and
\* the call history afterwards
check_rate_limit(history, agent_id, tool_id) ==
    LET key == HistoryKey(agent_id, tool_id)
        limit_config == RateLimitConfig(agent_id, tool_id)
    IN
    IF limit_config = << >> THEN [allowed |-> TRUE, history |-> history]
    ELSE LET max_calls == limit_config[1].max_calls
             window_seconds == limit_config[1].window_seconds
             calls == IF key \in DOMAIN history THEN history[key] ELSE << >>
             recent_calls == SelectSeq(calls, LAMBDA t : now - t < window_seconds)
         IN  IF Len(recent_calls) >= max_calls
             THEN [allowed |-> FALSE, history |-> history]
             ELSE [allowed |-> TRUE,
                   history |-> [k \in DOMAIN history \cup {key} |->
                                  IF k = key
                                  THEN LastN(Append(recent_calls, now), max_calls)
                                  ELSE history[k]]]

\* security_policy.py:100 the substrings validate_arguments refuses
DangerousList ==
    << <<"s", "h", "e", "l", "l", "=", "t", "r", "u", "e">>,
       <<"e", "v", "a", "l", "(">>,
       <<"e", "x", "e", "c", "(">>,
       <<"_", "_", "i", "m", "p", "o", "r", "t", "_", "_">>,
       <<"s", "u", "b", "p", "r", "o", "c", "e", "s", "s">> >>
DangerousSubstrings == { DangerousList[i] : i \in 1..Len(DangerousList) }

\* Path.cwd() and the relative prefixes validate_arguments accepts
Workspace == <<"/", "w">>
RelativePrefixes == { <<".", "/">>, <<"a", "i", "/">>,
                      <<"s", "c", "r", "i", "p", "t", "s", "/">> }

\* security_policy.py:83 validate_arguments, with no blocked_patterns and no
\* argument_patterns configured
validate_arguments(tool_id, args, agent_id) ==
    /\ \A danger \in DangerousSubstrings : ~Contains(JsonDumps(args), danger)
    /\ \A k \in 1..Len(args) :
          (Contains(args[k].value, <<"/">>) \/ Contains(args[k].value, <<"\\">>)) =>
             \/ IsPrefix(Workspace, args[k].value)
             \/ \E prefix \in RelativePrefixes : IsPrefix(prefix, args[k].value)

\* whether validate_arguments takes the value for a path outside the
\* workspace
OutsideWorkspace(value) ==
    /\ Contains(value, <<"/">>) \/ Contains(value, <<"\\">>)
    /\ ~IsPrefix(Workspace, value)
    /\ \A prefix \in RelativePrefixes : ~IsPrefix(prefix, value)

\* security_policy.py:99-113 the message validate_arguments returns with
\* False: the dangerous pattern found first, or else the first argument whose
\* value is a path outside the workspace, as key=value.  The fixed part of a
\* message is one element of the text.
validation_error(tool_id, args, agent_id) ==
    LET found == { i \in 1..Len(DangerousList) : Contains(JsonDumps(args), DangerousList[i]) }
        outside == { k \in 1..Len(args) : OutsideWorkspace(args[k].value) }
        First(set) == CHOOSE i \in set : \A j \in set : i <= j
    IN  IF found # {}
        THEN <<"Dangerous pattern detected: ">> \o DangerousList[First(found)]
        ELSE IF outside # {}
        THEN <<"File path outside workspace: ">> \o args[First(outside)].key
             \o <<"=">> \o args[First(outside)].value
        ELSE << >>

\* validate_arguments of every call that is tried, computed once
ArgumentsValid == [t \in CallToolIds, a \in AllArgs |-> validate_arguments(t, a, None)]
ArgumentsError == [t \in CallToolIds, a \in AllArgs |-> validation_error(t, a, None)]

\* budgets.json: every agent may make one API call
BudgetConfig(agent_id) ==
    [max_tokens |-> 1000000, max_api_calls |-> 1, max_cost_usd |-> 10]

\* security_policy.py:124 check_budget: the caps of budgets.json against the
\* usage of usage.json, a file nothing in the broker writes
check_budget(agent_id, estimated_tokens, estimated_cost) ==
    LET agent_usage == [tokens |-> 0, api_calls |-> 0, cost_usd |-> 0]
        agent_budget == BudgetConfig(agent_id)
    IN  /\ agent_usage.tokens + estimated_tokens <= agent_budget.max_tokens
        /\ agent_usage.api_calls + 1 <= agent_budget.max_api_calls
        /\ agent_usage.cost_usd + estimated_cost <= agent_budget.max_cost_usd

\* discovery.tools_cache: the tools the configured servers offer
ToolsCache == ToolIds

\* tool_id.split(":")[0] and the rest
ColonAt(tool_id) ==
    IF \E k \in 1..Len(tool_id) : tool_id[k] = ":"
    THEN CHOOSE k \in 1..Len(tool_id) :
            tool_id[k] = ":" /\ \A j \in 1..(k - 1) : tool_id[j] # ":"
    ELSE 0
ServerOf(tool_id) ==
    IF ColonAt(tool_id) = 0 THEN <<"u", "n", "k", "n", "o", "w", "n">>
    ELSE SubSeq(tool_id, 1, ColonAt(tool_id) - 1)
NameOf(tool_id) == SubSeq(tool_id, ColonAt(tool_id) + 1, Len(tool_id))

\* discovery.py:290 get_tool_schema: the named server's tool of that name,
\* else a tool of that name on any server
get_tool_schema(tool_id) ==
    \E t \in ToolsCache : NameOf(t) = NameOf(tool_id)

\* tool_broker.py:117 describe_tool: whether a schema is returned
describe_tool(al, tool_id, agent_id) ==
    /\ agent_id # None => is_tool_allowed(al, agent_id, tool_id)
    /\ get_tool_schema(tool_id)

Entry(event, reason, tool_id, agent_id, action_class) ==
    [event |-> event, reason |-> reason, tool_id |-> tool_id,
     agent_id |-> agent_id, action_class |-> action_class]

\* call_tool with the arguments validated before the rate limit is checked
call_tool_ArgumentsFirst(al, pa, history, log, approval_required, tool_id, args, agent_id, transport) ==
    LET aid == IF agent_id # None THEN agent_id ELSE Default
        action_class == ActionClassOf[tool_id, args]
        same == [al |-> al, pa |-> pa, history |-> history, aid |-> aid]
    IN
    IF agent_id # None /\ ~is_tool_allowed(al, agent_id, tool_id)
    THEN IF approval_required
         THEN [same EXCEPT !.pa = request_approval(pa, agent_id, tool_id)] @@
              [ret |-> "approval_required", stage |-> "allowlist",
               log |-> Append(log, Entry("call_blocked", "allowlist",
                                         tool_id, aid, action_class))]
         ELSE same @@
              [ret |-> "not_allowed", stage |-> "allowlist",
               log |-> Append(log, Entry("call_blocked", "allowlist_no_approval",
                                         tool_id, aid, action_class))]
    ELSE
    LET log2 == IF action_class \in DangerousActions
                THEN Append(log, Entry("dangerous_action", None, tool_id, aid,
                                       action_class))
                ELSE log
        rate == check_rate_limit(history, aid, tool_id)
        counted == [same EXCEPT !.history = rate.history]
    IN
    IF ~ArgumentsValid[tool_id, args]
    THEN same @@
         [ret |-> "argument", stage |-> "argument_validation",
          log |-> Append(log2, Entry("call_blocked", "argument_validation",
                                     tool_id, aid, None)
                               @@ [detail |-> ArgumentsError[tool_id, args]])]
    ELSE IF ~rate.allowed
    THEN same @@
         [ret |-> "rate_limit", stage |-> "rate_limit",
          log |-> Append(log2, Entry("call_blocked", "rate_limit", tool_id, aid, None))]
    ELSE IF ~check_budget(aid, 0, 0)
    THEN counted @@
         [ret |-> "budget", stage |-> "budget",
          log |-> Append(log2, Entry("call_blocked", "budget", tool_id, aid, None))]
    ELSE IF ~describe_tool(al, tool_id, agent_id)
    THEN counted @@ [ret |-> "not_found", stage |-> "schema", log |-> log2]
    ELSE counted @@
         [ret |-> transport, stage |-> "dispatch",
          log |-> Append(log2, Entry("call_tool", None, tool_id, aid, action_class))]

\* tool_broker.py:138 call_tool: the value returned, the step that returned
\* it, and the stores afterwards.  transport is what _route_call comes back
\* with when the call gets that far.
call_tool(al, pa, history, log, approval_required, tool_id, args, agent_id, transport) ==
    LET aid == IF agent_id # None THEN agent_id ELSE Default
        action_class == ActionClassOf[tool_id, args]
        same == [al |-> al, pa |-> pa, history |-> history, aid |-> aid]
    IN
    IF agent_id # None /\ ~is_tool_allowed(al, agent_id, tool_id)
    THEN IF approval_required
         THEN [same EXCEPT !.pa = request_approval(pa, agent_id, tool_id)] @@
              [ret |-> "approval_required", stage |-> "allowlist",
               log |-> Append(log, Entry("call_blocked", "allowlist",
                                         tool_id, aid, action_class))]
         ELSE same @@
              [ret |-> "not_allowed", stage |-> "allowlist",
               log |-> Append(log, Entry("call_blocked", "allowlist_no_approval",
                                         tool_id, aid, action_class))]
    ELSE
    LET log2 == IF action_class \in DangerousActions
                THEN Append(log, Entry("dangerous_action", None, tool_id, aid,
                                       action_class))
                ELSE log
        rate == check_rate_limit(history, aid, tool_id)
        counted == [same EXCEPT !.history = rate.history]
    IN
    IF ~rate.allowed
    THEN same @@
         [ret |-> "rate_limit", stage |-> "rate_limit",
          log |-> Append(log2, Entry("call_blocked", "rate_limit", tool_id, aid, None))]
    ELSE IF ~ArgumentsValid[tool_id, args]
    THEN counted @@
         [ret |-> "argument", stage |-> "argument_validation",
          log |-> Append(log2, Entry("call_blocked", "argument_validation",
                                     tool_id, aid, None)
                               @@ [detail |-> ArgumentsError[tool_id, args]])]
    ELSE IF ~check_budget(aid, 0, 0)
    THEN counted @@
         [ret |-> "budget", stage |-> "budget",
          log |-> Append(log2, Entry("call_blocked", "budget", tool_id, aid, None))]
    ELSE IF ~describe_tool(al, tool_id, agent_id)
    THEN counted @@ [ret |-> "not_found", stage |-> "schema", log |-> log2]
    ELSE counted @@
         [ret |-> transport, stage |-> "dispatch",
          log |-> Append(log2, Entry("call_tool", None, tool_id, aid, action_class))]

TransportResults == {"ok", "error"}

\* forge_approval.py:241 is_approved: some proposal of that server is approved
is_approved(store, server_name) ==
    \E id \in DOMAIN store :
        store[id].server_name = server_name /\ store[id].status = "approved"

CallTool(tool_id, args, agent_id, transport) ==
    LET r == call_tool(allowlists, pending_approvals, call_history, audit,
                       tool_approval_required, tool_id, args, agent_id, transport)
    IN  /\ Len(audit) < MaxAudit
        /\ Cardinality(DOMAIN pending_approvals) < MaxRequests
        /\ allowlists' = r.al
        /\ pending_approvals' = r.pa
        /\ call_history' = r.history
        /\ audit' = r.log
        /\ answer' = Answer("call_tool", r.ret)
        /\ accepted' = IF r.history = call_history THEN accepted
                       ELSE Accept(accepted, HistoryKey(r.aid, tool_id), now)
        /\ UNCHANGED <<now, tool_approval_required, forgeVars, rate_reads, pureVars, in_flight>>

\* an administrator edits tool_approval_required in security_policy.json,
\* which call_tool reads at every call
EditPolicy(required) ==
    /\ tool_approval_required' = required
    /\ UNCHANGED <<allowVars, now, answer, call_history, audit, forgeVars,
                   rateVars, pureVars, in_flight>>

\* the allowlists the broker is run with
BrokerAllowChoices == {{}, {GlobA}}

\* The broker: servers are proposed and decided on, allowlists are set,
\* requests are resolved, and tools are called
BrokerNext ==
    \/ \E s \in {ServerA} : ProposeServer(s)
    \/ \E u \in Users, o \in BOOLEAN : Approve(IdOf(ServerA), u, o)
    \/ \E u \in Users, r \in Reasons : Reject(IdOf(ServerA), u, r)
    \/ \E a \in Agents \cup {Default}, allow \in BrokerAllowChoices :
          SetAgentAllowlist(a, allow, {})
    \/ \E b \in BOOLEAN : EditPolicy(b)
    \/ \E t \in CallToolIds, args \in ArgsChoices, a \in CallAgents,
          tr \in TransportResults : CallTool(t, args, a, tr)

SpecBroker == Init /\ [][BrokerNext]_vars

\* The runtime call policy alone: allowlists and the policy are set, and
\* tools are called
CallNext ==
    \/ \E a \in Agents \cup {Default}, allow \in BrokerAllowChoices :
          SetAgentAllowlist(a, allow, {})
    \/ \E b \in BOOLEAN : EditPolicy(b)
    \/ \E t \in CallToolIds, args \in ArgsChoices, a \in CallAgents,
          tr \in TransportResults : CallTool(t, args, a, tr)

SpecCalls == Init /\ [][CallNext]_vars

----------------------------------------------------------------------------
(* classify_action on its own *)

\* the words tool names are made of: keywords of every class, one keyword
\* of two classes, and a word that is no keyword
NameWords ==
    { <<"g", "e", "t">>, <<"w", "r", "i", "t", "e">>, <<"h", "t", "t", "p">>,
      <<"k", "e", "y">>, <<"r", "u", "n">>, <<"f", "e", "t", "c", "h">>,
      <<"x">> }

ClassifyToolIds ==
    { ServerA \o <<":">> \o w1 \o <<"_">> \o w2 : w1 \in NameWords, w2 \in NameWords }

PostArgs == << [key |-> <<"m">>, value |-> <<"p", "o", "s", "t">>] >>
ClassifyArgs == {NoArgs, PostArgs}

InitClassify ==
    /\ proposals = << >>
    /\ vets = [w \in Workers |-> Idle]
    /\ vetted = {}
    /\ last = NoOp
    /\ allowlists = [a \in {Default} |-> EmptyConfig]
    /\ pending_approvals = << >>
    /\ now = 0
    /\ answer = Answer("init", "True")
    /\ tool_approval_required = TRUE
    /\ call_history = << >>
    /\ audit = << >>
    /\ accepted = << >>
    /\ rate_reads = [c \in Callers |-> << >>]
    /\ in_flight = [c \in Callers |-> << >>]
    /\ probe \in [tool_id : ClassifyToolIds, args : ClassifyArgs]
    /\ returned = << >>

Classify ==
    /\ returned = << >>
    /\ returned' = << classify_action(probe.tool_id, probe.args) >>
    /\ UNCHANGED <<forgeVars, allowVars, now, answer, tool_approval_required,
                   call_history, audit, rateVars, probe, in_flight>>

SpecClassify == InitClassify /\ [][Classify]_vars

----------------------------------------------------------------------------
(* tool_vetting: ScanResult, the scanners' severities and VettingReport.evaluate *)

MaxFindings == 1
MaxWords == 1

UpperCase == <<"A", "B", "C", "D", "E", "F", "G", "H", "I", "J", "K", "L", "M">>
             \o <<"N", "O", "P", "Q", "R", "S", "T", "U", "V", "W", "X", "Y", "Z">>
LowerCase == <<"a", "b", "c", "d", "e", "f", "g", "h", "i", "j", "k", "l", "m">>
             \o <<"n", "o", "p", "q", "r", "s", "t", "u", "v", "w", "x", "y", "z">>

\* str.lower()
Lower(word) ==
    [i \in 1..Len(word) |->
        IF \E k \in 1..Len(UpperCase) : UpperCase[k] = word[i]
        THEN LowerCase[CHOOSE k \in 1..Len(UpperCase) : UpperCase[k] = word[i]]
        ELSE word[i]]

SevCritical == <<"c", "r", "i", "t", "i", "c", "a", "l">>
SevHigh == <<"h", "i", "g", "h">>
SevMedium == <<"m", "e", "d", "i", "u", "m">>
SevLow == <<"l", "o", "w">>

\* tool_vetting.py:120 ScanResult(scanner, available)
ScanResult(scanner, available) ==
    [scanner |-> scanner, available |-> available, findings |-> << >>, error |-> ""]

\* tool_vetting.py:128 add_finding stores the severity in lower case
add_finding(res, severity) ==
    [res EXCEPT !.findings = Append(@, [severity |-> Lower(severity)])]

RECURSIVE AddFindings(_, _)
AddFindings(res, severities) ==
    IF severities = << >> THEN res
    ELSE AddFindings(add_finding(res, Head(severities)), Tail(severities))

\* the findings of all results, each with the scanner that made it, in the
\* order evaluate goes through them
RECURSIVE AllFindings(_)
AllFindings(scanner_results) ==
    IF scanner_results = << >> THEN << >>
    ELSE [i \in 1..Len(Head(scanner_results).findings) |->
             [scanner |-> Head(scanner_results).scanner,
              severity |-> Head(scanner_results).findings[i].severity]]
         \o AllFindings(Tail(scanner_results))

AnyScanner == "*"
AnySeverity == << >>

\* whether the finding is of the scanner and of the severity, AnyScanner
\* and AnySeverity standing for every one
Matches(f, scanner, severity) ==
    /\ scanner = AnyScanner \/ f.scanner = scanner
    /\ severity = AnySeverity \/ f.severity = severity

CountOf(findings, scanner, severity) ==
    Cardinality({ i \in 1..Len(findings) : Matches(findings[i], scanner, severity) })

\* policy.get(key, default)
PolicyGet(policy, key, default) ==
    IF key \in DOMAIN policy THEN policy[key] ELSE default

Reason(kind, count) == [kind |-> kind, count |-> count]

\* evaluate whose critical threshold is met at max_critical already
evaluate_CriticalAtThreshold(scanner_results, policy) ==
    LET findings == AllFindings(scanner_results)
        critical == CountOf(findings, AnyScanner, SevCritical)
        high == CountOf(findings, AnyScanner, SevHigh)
        medium == CountOf(findings, AnyScanner, SevMedium)
        secrets == CountOf(findings, "gitleaks", AnySeverity)
        malware == CountOf(findings, "clamav", SevCritical)
        injections == CountOf(findings, "prompt_injection", AnySeverity)
        reasons ==
            (IF PolicyGet(policy, "auto_reject_on_malware", FALSE) /\ malware > 0
             THEN << Reason("Malware", malware) >> ELSE << >>)
            \o (IF /\ PolicyGet(policy, "auto_reject_on_critical", FALSE)
                   /\ critical >= PolicyGet(policy, "max_critical", 0)
                THEN << Reason("Critical", critical) >> ELSE << >>)
            \o (IF high > PolicyGet(policy, "max_high", 2)
                THEN << Reason("High", high) >> ELSE << >>)
            \o (IF medium > PolicyGet(policy, "max_medium", 10)
                THEN << Reason("Medium", medium) >> ELSE << >>)
            \o (IF secrets > PolicyGet(policy, "max_secrets", 0)
                THEN << Reason("Secrets", secrets) >> ELSE << >>)
            \o (IF injections > PolicyGet(policy, "max_injection_signals", 1)
                THEN << Reason("Injection", injections) >> ELSE << >>)
    IN  [verdict_reasons |-> reasons,
         verdict |-> IF \E i \in 1..Len(reasons) : reasons[i].kind = "Malware" THEN "fail"
                     ELSE IF Len(reasons) > 0 THEN "fail"
                     ELSE IF high > 0 \/ injections > 0 THEN "warn"
                     ELSE "pass"]

\* evaluate that warns on a high-severity finding only when there is no
\* medium one
evaluate_MediumHidesHigh(scanner_results, policy) ==
    LET findings == AllFindings(scanner_results)
        critical == CountOf(findings, AnyScanner, SevCritical)
        high == CountOf(findings, AnyScanner, SevHigh)
        medium == CountOf(findings, AnyScanner, SevMedium)
        secrets == CountOf(findings, "gitleaks", AnySeverity)
        malware == CountOf(findings, "clamav", SevCritical)
        injections == CountOf(findings, "prompt_injection", AnySeverity)
        reasons ==
            (IF PolicyGet(policy, "auto_reject_on_malware", FALSE) /\ malware > 0
             THEN << Reason("Malware", malware) >> ELSE << >>)
            \o (IF /\ PolicyGet(policy, "auto_reject_on_critical", FALSE)
                   /\ critical > PolicyGet(policy, "max_critical", 0)
                THEN << Reason("Critical", critical) >> ELSE << >>)
            \o (IF high > PolicyGet(policy, "max_high", 2)
                THEN << Reason("High", high) >> ELSE << >>)
            \o (IF medium > PolicyGet(policy, "max_medium", 10)
                THEN << Reason("Medium", medium) >> ELSE << >>)
            \o (IF secrets > PolicyGet(policy, "max_secrets", 0)
                THEN << Reason("Secrets", secrets) >> ELSE << >>)
            \o (IF injections > PolicyGet(policy, "max_injection_signals", 1)
                THEN << Reason("Injection", injections) >> ELSE << >>)
    IN  [verdict_reasons |-> reasons,
         verdict |-> IF \E i \in 1..Len(reasons) : reasons[i].kind = "Malware" THEN "fail"
                     ELSE IF Len(reasons) > 0 THEN "fail"
                     ELSE IF (high > 0 /\ medium = 0) \/ injections > 0 THEN "warn"
                     ELSE "pass"]

\* tool_vetting.py:459 VettingReport.evaluate: verdict and verdict_reasons
evaluate(scanner_results, policy) ==
    LET findings == AllFindings(scanner_results)
        critical == CountOf(findings, AnyScanner, SevCritical)
        high == CountOf(findings, AnyScanner, SevHigh)
        medium == CountOf(findings, AnyScanner, SevMedium)
        secrets == CountOf(findings, "gitleaks", AnySeverity)
        malware == CountOf(findings, "clamav", SevCritical)
        injections == CountOf(findings, "prompt_injection", AnySeverity)
        reasons ==
            (IF PolicyGet(policy, "auto_reject_on_malware", FALSE) /\ malware > 0
             THEN << Reason("Malware", malware) >> ELSE << >>)
            \o (IF /\ PolicyGet(policy, "auto_reject_on_critical", FALSE)
                   /\ critical > PolicyGet(policy, "max_critical", 0)
                THEN << Reason("Critical", critical) >> ELSE << >>)
            \o (IF high > PolicyGet(policy, "max_high", 2)
                THEN << Reason("High", high) >> ELSE << >>)
            \o (IF medium > PolicyGet(policy, "max_medium", 10)
                THEN << Reason("Medium", medium) >> ELSE << >>)
            \o (IF secrets > PolicyGet(policy, "max_secrets", 0)
                THEN << Reason("Secrets", secrets) >> ELSE << >>)
            \o (IF injections > PolicyGet(policy, "max_injection_signals", 1)
                THEN << Reason("Injection", injections) >> ELSE << >>)
    IN  [verdict_reasons |-> reasons,
         verdict |-> IF \E i \in 1..Len(reasons) : reasons[i].kind = "Malware" THEN "fail"
                     ELSE IF Len(reasons) > 0 THEN "fail"
                     ELSE IF high > 0 \/ injections > 0 THEN "warn"
                     ELSE "pass"]

\* tool_vetting.py:36 DEFAULT_POLICY, without scanners_enabled
DEFAULT_POLICY ==
    [max_critical |-> 0, max_high |-> 2, max_medium |-> 10, max_secrets |-> 0,
     max_malware |-> 0, max_injection_signals |-> 1,
     auto_reject_on_malware |-> TRUE, auto_reject_on_critical |-> TRUE]

\* a vetting_policy.json with no key at all
EmptyPolicy == << >>

\* one that rejects on any finding that can be counted
StrictPolicy ==
    [max_critical |-> 0, max_high |-> 0, max_medium |-> 0, max_secrets |-> 0,
     max_injection_signals |-> 0,
     auto_reject_on_malware |-> TRUE, auto_reject_on_critical |-> TRUE]

\* one with both automatic rejections switched off and a finding of each
\* kind tolerated
LenientPolicy ==
    [max_critical |-> 1, max_high |-> 1, max_medium |-> 1, max_secrets |-> 1,
     max_injection_signals |-> 1,
     auto_reject_on_malware |-> FALSE, auto_reject_on_critical |-> FALSE]

Policies == {DEFAULT_POLICY, EmptyPolicy, StrictPolicy, LenientPolicy}

\* the kinds of finding the reports are made of: the scanner and the
\* severity it stores
Kinds == <<[scanner |-> "trivy", severity |-> SevCritical],
           [scanner |-> "trivy", severity |-> SevHigh],
           [scanner |-> "trivy", severity |-> SevMedium],
           [scanner |-> "gitleaks", severity |-> SevHigh],
           [scanner |-> "clamav", severity |-> SevCritical],
           [scanner |-> "prompt_injection", severity |-> SevHigh]>>

\* how many findings of each kind a report holds
FindingCounts == [1..Len(Kinds) -> 0..MaxFindings]

\* tool_vetting.py:616-649 the scanners in the order run_vetting adds their
\* results
ScannerOrder == <<"trivy", "trivy_sbom", "gitleaks", "clamav", "npm_audit",
                  "pip_audit", "semgrep", "prompt_injection">>

RECURSIVE Repeat(_, _)
Repeat(x, n) == IF n = 0 THEN << >> ELSE <<x>> \o Repeat(x, n - 1)

RECURSIVE SeveritiesOf(_, _, _)
SeveritiesOf(scanner, n, k) ==
    IF k > Len(Kinds) THEN << >>
    ELSE (IF Kinds[k].scanner = scanner THEN Repeat(Kinds[k].severity, n[k]) ELSE << >>)
         \o SeveritiesOf(scanner, n, k + 1)

\* the scanner results of a report with n[k] findings of kind k
ReportOf(n) ==
    [i \in 1..Len(ScannerOrder) |->
        AddFindings(ScanResult(ScannerOrder[i], TRUE), SeveritiesOf(ScannerOrder[i], n, 1))]

\* the variables nothing of tool_vetting touches
InitOthers ==
    /\ proposals = << >>
    /\ vets = [w \in Workers |-> Idle]
    /\ vetted = {}
    /\ last = NoOp
    /\ allowlists = [a \in {Default} |-> EmptyConfig]
    /\ pending_approvals = << >>
    /\ now = 0
    /\ answer = Answer("init", "True")
    /\ tool_approval_required = TRUE
    /\ call_history = << >>
    /\ audit = << >>
    /\ accepted = << >>
    /\ rate_reads = [c \in Callers |-> << >>]
    /\ in_flight = [c \in Callers |-> << >>]

OthersUnchanged ==
    UNCHANGED <<forgeVars, allowVars, now, answer, tool_approval_required,
                call_history, audit, rateVars, probe, in_flight>>

\* evaluate on its own: any report, any policy
InitEvaluate ==
    /\ InitOthers
    /\ probe \in [n : FindingCounts, policy : Policies]
    /\ returned = << >>

Evaluate ==
    /\ returned = << >>
    /\ returned' = << evaluate(ReportOf(probe.n), probe.policy) >>
    /\ OthersUnchanged

SpecEvaluate == InitEvaluate /\ [][Evaluate]_vars

\* evaluate on two reports, every finding of the first being in the second
InitEvaluateBoth ==
    /\ InitOthers
    /\ \E a \in FindingCounts, policy \in Policies \ {EmptyPolicy} :
          \E b \in [1..Len(Kinds) -> 0..MaxFindings] :
             /\ \A k \in 1..Len(Kinds) : a[k] <= b[k]
             /\ probe = [a |-> a, b |-> b, policy |-> policy]
    /\ returned = << >>

EvaluateBoth ==
    /\ returned = << >>
    /\ returned' = << [a |-> evaluate(ReportOf(probe.a), probe.policy).verdict,
                       b |-> evaluate(ReportOf(probe.b), probe.policy).verdict] >>
    /\ OthersUnchanged

SpecEvaluateBoth == InitEvaluateBoth /\ [][EvaluateBoth]_vars

----------------------------------------------------------------------------
(* tool_vetting: the scanners and run_vetting *)

\* the severity words of Trivy's report, of npm audit's and of Semgrep's
TrivyWords == { <<"C", "R", "I", "T", "I", "C", "A", "L">>,
                <<"H", "I", "G", "H">>,
                <<"M", "E", "D", "I", "U", "M">>,
                <<"L", "O", "W">>,
                <<"U", "N", "K", "N", "O", "W", "N">> }
NpmWords == { <<"i", "n", "f", "o">>,
              <<"l", "o", "w">>,
              <<"m", "o", "d", "e", "r", "a", "t", "e">>,
              <<"h", "i", "g", "h">>,
              <<"c", "r", "i", "t", "i", "c", "a", "l">> }
SemgrepWords == { <<"E", "R", "R", "O", "R">>, <<"I", "N", "F", "O">>, <<"N", "O", "T", "E">> }

\* the sequences of at most n elements of the set
UpTo(set, n) == UNION { [1..k -> set] : k \in 0..n }

\* the programs the scanners run as a subprocess, by the scanner's name
Subprocesses == <<"trivy", "trivy_sbom", "gitleaks", "clamav", "npm_audit",
                  "pip_audit", "semgrep">>

\* how a subprocess ends: with its report, after the timeout, or with output
\* that is not JSON
Outcomes == {"normal", "timeout", "garbage"}

AllNormal == [name \in { Subprocesses[i] : i \in 1..Len(Subprocesses) } |-> "normal"]

\* what a vetting run finds on the machine and in the target: the binaries
\* that are not installed, how each subprocess ends, the severities of the
\* findings in the output of Trivy, npm audit and Semgrep, and the number of
\* leaks in Gitleaks' report
Environments ==
    [missing : SUBSET {"gitleaks"},
     outcome : {AllNormal},
     trivy : UpTo(TrivyWords, MaxWords),
     npm_audit : UpTo(NpmWords, MaxWords),
     semgrep : UpTo(SemgrepWords, MaxWords),
     gitleaks : 0..1]

\* tool_vetting.py:99 _run: the return code, what stdout holds and stderr
Run(outcome) ==
    CASE outcome = "timeout" -> [rc |-> -2, stdout |-> "", stderr |-> "Timed out"]
      [] outcome = "garbage" -> [rc |-> 0, stdout |-> "garbage", stderr |-> ""]
      [] OTHER -> [rc |-> 0, stdout |-> "json", stderr |-> ""]

\* whether json.loads(text) returns; it raises JSONDecodeError on the empty
\* string and on text that is not JSON
JsonLoads(text) == text = "json"

\* tool_vetting.py:147 scan_trivy
scan_trivy(env) ==
    IF "trivy" \in env.missing THEN ScanResult("trivy", FALSE)
    ELSE LET res == ScanResult("trivy", TRUE)
             r == Run(env.outcome["trivy"])
         IN  IF r.rc < 0 THEN [res EXCEPT !.error = r.stderr]
             ELSE IF JsonLoads(r.stdout) THEN AddFindings(res, env.trivy)
             ELSE [res EXCEPT !.error = "Failed to parse Trivy JSON output"]

\* tool_vetting.py:184 scan_trivy_sbom
scan_trivy_sbom(env) ==
    IF "trivy" \in env.missing THEN ScanResult("trivy_sbom", FALSE)
    ELSE LET res == ScanResult("trivy_sbom", TRUE)
             r == Run(env.outcome["trivy_sbom"])
         IN  IF r.rc < 0 THEN [res EXCEPT !.error = r.stderr]
             ELSE IF JsonLoads(r.stdout) THEN res
             ELSE [res EXCEPT !.error = "Failed to parse SBOM"]

\* scan_gitleaks that reports the missing binary as a finding
scan_gitleaks_MissingIsFinding(env) ==
    IF "gitleaks" \in env.missing
    THEN add_finding(ScanResult("gitleaks", FALSE), SevHigh)
    ELSE LET res == ScanResult("gitleaks", TRUE)
             report == Run(env.outcome["gitleaks"]).stdout
         IN  IF JsonLoads(report)
             THEN AddFindings(res, Repeat(SevHigh, env.gitleaks))
             ELSE res

\* tool_vetting.py:205 scan_gitleaks: every leak of the report file is a
\* finding of severity high; a report that does not parse is passed over and
\* the return code is not looked at
scan_gitleaks(env) ==
    IF "gitleaks" \in env.missing THEN ScanResult("gitleaks", FALSE)
    ELSE LET res == ScanResult("gitleaks", TRUE)
             report == Run(env.outcome["gitleaks"]).stdout
         IN  IF JsonLoads(report)
             THEN AddFindings(res, Repeat(SevHigh, env.gitleaks))
             ELSE res

\* tool_vetting.py:240 scan_clamav, on a target without malware: the output
\* is read only when the return code is 1
scan_clamav(env) ==
    IF "clamscan" \in env.missing THEN ScanResult("clamav", FALSE)
    ELSE LET res == ScanResult("clamav", TRUE)
             r == Run(env.outcome["clamav"])
         IN  IF r.rc < 0 THEN [res EXCEPT !.error = r.stderr] ELSE res

\* tool_vetting.py:268 scan_npm_audit, on a target with a package.json
scan_npm_audit(env) ==
    IF "npm" \in env.missing THEN ScanResult("npm_audit", FALSE)
    ELSE LET res == ScanResult("npm_audit", TRUE)
             r == Run(env.outcome["npm_audit"])
         IN  IF JsonLoads(r.stdout) THEN AddFindings(res, env.npm_audit) ELSE res

\* tool_vetting.py:294 scan_pip_audit, on a target with clean requirements:
\* output that does not parse is passed over and the return code is not
\* looked at, so the result is the same however the subprocess ends
scan_pip_audit(env) == ScanResult("pip_audit", "pip-audit" \notin env.missing)

\* tool_vetting.py:335 sev_map.get(sev, "medium")
SemgrepSeverity(sev) ==
    CASE sev = <<"E", "R", "R", "O", "R">> -> SevHigh
      [] sev = <<"W", "A", "R", "N", "I", "N", "G">> -> SevMedium
      [] sev = <<"I", "N", "F", "O">> -> SevLow
      [] OTHER -> SevMedium

\* tool_vetting.py:320 scan_semgrep
scan_semgrep(env) ==
    IF "semgrep" \in env.missing THEN ScanResult("semgrep", FALSE)
    ELSE LET res == ScanResult("semgrep", TRUE)
             r == Run(env.outcome["semgrep"])
         IN  IF JsonLoads(r.stdout)
             THEN AddFindings(res, [i \in 1..Len(env.semgrep) |->
                                       SemgrepSeverity(env.semgrep[i])])
             ELSE res

\* tool_vetting.py:377 scan_prompt_injection, on documents without a signal
scan_prompt_injection(env) == ScanResult("prompt_injection", TRUE)

\* tool_vetting.py:50 DEFAULT_POLICY["scanners_enabled"]
DefaultScannersEnabled ==
    [name \in {"trivy", "gitleaks", "clamav", "npm_audit", "pip_audit", "semgrep",
               "prompt_injection"} |-> TRUE]

\* tool_vetting.py:614 pol.get("scanners_enabled", ...) and enabled.get(name, True)
Enabled(pol, name) ==
    LET enabled == PolicyGet(pol, "scanners_enabled", DefaultScannersEnabled)
    IN  PolicyGet(enabled, name, TRUE)

\* run_vetting that makes the SBOM of a container image too
run_vetting_SbomOfImage(env, is_image, policy) ==
    LET pol == IF policy = << >> THEN DEFAULT_POLICY ELSE policy
        when(cond, res) == IF cond THEN << res >> ELSE << >>
        scanner_results ==
            when(Enabled(pol, "trivy"), scan_trivy(env))
            \o when(Enabled(pol, "trivy"), scan_trivy_sbom(env))
            \o when(Enabled(pol, "gitleaks") /\ ~is_image, scan_gitleaks(env))
            \o when(Enabled(pol, "clamav") /\ ~is_image, scan_clamav(env))
            \o when(Enabled(pol, "npm_audit") /\ ~is_image, scan_npm_audit(env))
            \o when(Enabled(pol, "pip_audit") /\ ~is_image, scan_pip_audit(env))
            \o when(Enabled(pol, "semgrep") /\ ~is_image, scan_semgrep(env))
            \o when(Enabled(pol, "prompt_injection") /\ ~is_image,
                    scan_prompt_injection(env))
        verdict == evaluate(scanner_results, pol)
    IN  [scanner_results |-> scanner_results,
         verdict |-> verdict.verdict,
         verdict_reasons |-> verdict.verdict_reasons]

\* tool_vetting.py:603 run_vetting: the results of the enabled scanners in the
\* order they are added, and the verdict
run_vetting(env, is_image, policy) ==
    LET pol == IF policy = << >> THEN DEFAULT_POLICY ELSE policy
        when(cond, res) == IF cond THEN << res >> ELSE << >>
        scanner_results ==
            when(Enabled(pol, "trivy"), scan_trivy(env))
            \o when(Enabled(pol, "trivy") /\ ~is_image, scan_trivy_sbom(env))
            \o when(Enabled(pol, "gitleaks") /\ ~is_image, scan_gitleaks(env))
            \o when(Enabled(pol, "clamav") /\ ~is_image, scan_clamav(env))
            \o when(Enabled(pol, "npm_audit") /\ ~is_image, scan_npm_audit(env))
            \o when(Enabled(pol, "pip_audit") /\ ~is_image, scan_pip_audit(env))
            \o when(Enabled(pol, "semgrep") /\ ~is_image, scan_semgrep(env))
            \o when(Enabled(pol, "prompt_injection") /\ ~is_image,
                    scan_prompt_injection(env))
        verdict == evaluate(scanner_results, pol)
    IN  [scanner_results |-> scanner_results,
         verdict |-> verdict.verdict,
         verdict_reasons |-> verdict.verdict_reasons]

InitVetting ==
    /\ InitOthers
    /\ probe \in Environments
    /\ returned = << >>

RunVetting ==
    /\ returned = << >>
    /\ returned' = << run_vetting(probe, FALSE, << >>) >>
    /\ OthersUnchanged

SpecVetting == InitVetting /\ [][RunVetting]_vars

\* the environments in which every scanner has something to report and each
\* subprocess ends in any of the ways
BrokenEnvironments ==
    [missing : {{}, {"gitleaks"}},
     outcome : [DOMAIN AllNormal -> Outcomes],
     trivy : {<< <<"H", "I", "G", "H">> >>},
     npm_audit : {<< <<"h", "i", "g", "h">> >>},
     semgrep : {<< <<"E", "R", "R", "O", "R">> >>},
     gitleaks : {1}]

\* policies with some scanners switched off
WithScanners(enabled) == DEFAULT_POLICY @@ [scanners_enabled |-> enabled]
ScannerPolicies ==
    { EmptyPolicy,
      WithScanners([trivy |-> FALSE]),
      WithScanners([gitleaks |-> FALSE, semgrep |-> FALSE, clamav |-> TRUE]) }

InitOutcomes ==
    /\ InitOthers
    /\ probe \in [env : BrokenEnvironments, is_image : BOOLEAN, policy : ScannerPolicies]
    /\ returned = << >>

RunVettingOf ==
    /\ returned = << >>
    /\ returned' = << run_vetting(probe.env, probe.is_image, probe.policy) >>
    /\ OthersUnchanged

SpecOutcomes == InitOutcomes /\ [][RunVettingOf]_vars

----------------------------------------------------------------------------
(* call_tool on arguments that carry a secret *)

InitSecretCall ==
    /\ InitOthers
    /\ returned = << >>
    /\ probe \in [tool_id : CallToolIds, args : AllArgs, agent_id : CallAgents,
                  transport : TransportResults]

\* one call of call_tool on the stores as they are after construction
SecretCall ==
    /\ returned = << >>
    /\ returned' = << call_tool(allowlists, pending_approvals, call_history, audit,
                                tool_approval_required, probe.tool_id, probe.args,
                                probe.agent_id, probe.transport) >>
    /\ OthersUnchanged

SpecSecretCall == InitSecretCall /\ [][SecretCall]_vars

----------------------------------------------------------------------------
(* SecurityPolicy.redact_secrets and ToolBroker._redact *)

Whitespace == {" ", "\t", "\n"}
Quotes == {"\"", "'"}
Digits == {"0", "1", "2", "3", "4", "5", "6", "7", "8", "9"}

\* security_policy.py:24 [a-zA-Z0-9+/=]
TokenChars ==
    { LowerCase[i] : i \in 1..Len(LowerCase) } \cup { UpperCase[i] : i \in 1..Len(UpperCase) }
    \cup Digits \cup {"+", "/", "="}

\* security_policy.py:23 the words of the first pattern's group 1, the
\* optional [_-] written out
SecretWords ==
    { Password, <<"s", "e", "c", "r", "e", "t">>, Token, <<"k", "e", "y">>,
      <<"a", "p", "i", "k", "e", "y">>, <<"a", "p", "i", "_", "k", "e", "y">>,
      <<"a", "p", "i", "-", "k", "e", "y">>,
      <<"a", "u", "t", "h">> \o Token, <<"a", "u", "t", "h", "_">> \o Token,
      <<"a", "u", "t", "h", "-">> \o Token }

\* security_policy.py:24 the words of the second pattern's group 1
SchemeWords == { <<"b", "e", "a", "r", "e", "r">>, <<"b", "a", "s", "i", "c">> }

\* the word of the set the text has at position i, whatever the case: no two
\* words of a set begin alike, so there is at most one
WordsAt(words, text, i) ==
    { w \in words : /\ i + Len(w) - 1 <= Len(text)
                    /\ Lower(SubSeq(text, i, i + Len(w) - 1)) = w }

\* the position after the longest run of characters of the set from i on
SkipWhile(set, text, i) ==
    LET stops == { j \in i..Len(text) : text[j] \notin set }
    IN  IF stops = {} THEN Len(text) + 1
        ELSE CHOOSE j \in stops : \A k \in stops : j <= k

\* the position of the first character of the set from i on
SkipUntil(set, text, i) ==
    LET stops == { j \in i..Len(text) : text[j] \in set }
    IN  IF stops = {} THEN Len(text) + 1
        ELSE CHOOSE j \in stops : \A k \in stops : j <= k

\* the position after the match of
\*   (password|secret|token|key|api[_-]?key|auth[_-]?token)\s*[:=]\s*["']?([^"'\s]+)
\* that begins at i, or 0 when none does
SecretMatch(text, i) ==
    LET words == WordsAt(SecretWords, text, i) IN
    IF words = {} THEN 0
    ELSE LET sep == SkipWhile(Whitespace, text, i + Len(CHOOSE w \in words : TRUE))
         IN  IF sep > Len(text) \/ text[sep] \notin {":", "="} THEN 0
             ELSE LET q == SkipWhile(Whitespace, text, sep + 1)
                      start == IF q <= Len(text) /\ text[q] \in Quotes THEN q + 1 ELSE q
                      stop == SkipUntil(Quotes \cup Whitespace, text, start)
                  IN  IF stop > start THEN stop ELSE 0

\* the position after the match of (bearer|basic)\s+([a-zA-Z0-9+/=]+) that
\* begins at i, or 0
SchemeMatch(text, i) ==
    LET words == WordsAt(SchemeWords, text, i) IN
    IF words = {} THEN 0
    ELSE LET gap == i + Len(CHOOSE w \in words : TRUE)
             start == SkipWhile(Whitespace, text, gap)
             stop == SkipWhile(TokenChars, text, start)
         IN  IF start > gap /\ stop > start THEN stop ELSE 0

MatchOf(pattern, text, i) ==
    IF pattern = "secret" THEN SecretMatch(text, i) ELSE SchemeMatch(text, i)

WordLen(pattern, text, i) ==
    Len(CHOOSE w \in WordsAt(IF pattern = "secret" THEN SecretWords ELSE SchemeWords,
                             text, i) : TRUE)

\* pattern.sub(r'\1: [REDACTED]', text) from position i on: the matches from
\* left to right, none overlapping.  The replacement's fixed part is one
\* element of the text.
RECURSIVE Sub(_, _, _)
Sub(pattern, text, i) ==
    LET starts == { j \in i..Len(text) : MatchOf(pattern, text, j) # 0 }
        m == CHOOSE j \in starts : \A k \in starts : j <= k
    IN  IF starts = {} THEN SubSeq(text, i, Len(text))
        ELSE SubSeq(text, i, m + WordLen(pattern, text, m) - 1) \o <<": [REDACTED]">>
             \o Sub(pattern, text, MatchOf(pattern, text, m))

\* security_policy.py:117 redact_secrets: the patterns one after the other
redact_secrets(text) == Sub("scheme", Sub("secret", text, 1), 1)

\* json.loads of a text made of strings and objects: the position after the
\* value that begins at i, or 0 when there is none.  The strings hold no
\* backslash.
RECURSIVE JsonValue(_, _)
RECURSIVE JsonMembers(_, _)
JsonString(text, i) ==
    IF i > Len(text) \/ text[i] # "\"" THEN 0
    ELSE LET close == SkipUntil({"\""}, text, i + 1)
         IN  IF close > Len(text) THEN 0 ELSE close + 1

JsonMembers(text, i) ==
    LET colon == SkipWhile(Whitespace, text, JsonString(text, i))
        value == IF JsonString(text, i) = 0 \/ colon > Len(text) \/ text[colon] # ":"
                 THEN 0
                 ELSE JsonValue(text, SkipWhile(Whitespace, text, colon + 1))
        after == SkipWhile(Whitespace, text, value)
    IN  IF value = 0 \/ after > Len(text) THEN 0
        ELSE IF text[after] = "}" THEN after + 1
        ELSE IF text[after] = "," THEN JsonMembers(text, SkipWhile(Whitespace, text, after + 1))
        ELSE 0

JsonValue(text, i) ==
    IF i > Len(text) THEN 0
    ELSE IF text[i] = "\"" THEN JsonString(text, i)
    ELSE IF text[i] = "{"
    THEN LET first == SkipWhile(Whitespace, text, i + 1)
         IN  IF first <= Len(text) /\ text[first] = "}" THEN first + 1
             ELSE JsonMembers(text, first)
    ELSE 0

\* whether json.loads(text) returns a value
Parses(text) == JsonValue(text, 1) = Len(text) + 1

\* tool_broker.py:316 _redact: the text json.loads is given, and whether it
\* returns the payload or raises
redact(result) ==
    LET result_str == redact_secrets(result)
    IN  [text |-> result_str, raised |-> ~Parses(result_str)]

\* the keys and the values of the transport's answer
ResultKeys ==
    { Password, <<"s", "e", "c", "r", "e", "t">>, Token, <<"T", "o", "k", "e", "n">>,
      <<"k", "e", "y">>, <<"a", "u", "t", "h">>, <<"b", "e", "a", "r", "e", "r">>,
      <<"c", "r", "e", "d", "e", "n", "t", "i", "a", "l">>, <<"n", "o", "t", "e">> }
Hunter == <<"h", "2">>
ResultValues ==
    { Hunter, Token \o <<"=">> \o Hunter, Token \o <<"=">>,
      <<"b", "e", "a", "r", "e", "r", " ">> \o Hunter, <<"x", " ">> \o Hunter }

\* tool_broker.py:256 json.dumps of the dict _route_call hands to _redact,
\* with the transport's answer {key: value}, or {"out": {key: value}} when
\* nested
ResultHead ==
    <<"{", "\"", "t", "o", "o", "l", "_", "i", "d", "\"", ":", " ", "\"", "a", ":", "g", "e", "t", "\"", ",", " ">>
    \o <<"\"", "s", "e", "r", "v", "e", "r", "\"", ":", " ", "\"", "a", "\"", ",", " ">>
    \o <<"\"", "r", "e", "s", "u", "l", "t", "\"", ":", " ">>
ResultTail ==
    <<",", " ", "\"", "g", "a", "t", "e", "w", "a", "y", "\"", ":", " ", "\"", "m", "c", "p", "j", "u", "n", "g", "l", "e", "\"", "}">>

ResultText(key, value, nested) ==
    LET answer_text == JsonDumps(<< [key |-> key, value |-> value] >>)
    IN  ResultHead
        \o (IF nested THEN <<"{", "\"", "o", "u", "t", "\"", ":", " ">> \o answer_text \o <<"}">> ELSE answer_text)
        \o ResultTail

InitRedact ==
    /\ InitOthers
    /\ probe \in [key : ResultKeys, value : ResultValues, nested : BOOLEAN]
    /\ returned = << >>

Redact ==
    /\ returned = << >>
    /\ returned' = << redact(ResultText(probe.key, probe.value, probe.nested)) >>
    /\ OthersUnchanged

SpecRedact == InitRedact /\ [][Redact]_vars

----------------------------------------------------------------------------
(* SecurityPolicy.check_rate_limit on its own *)

\* the pairs check_rate_limit is called with
RatePairs == [agent_id : Agents \cup {Default}, tool_id : ToolIds]

BoolText(b) == IF b THEN "True" ELSE "False"

\* one whole call of check_rate_limit
CheckRateLimit(agent_id, tool_id) ==
    LET r == check_rate_limit(call_history, agent_id, tool_id)
    IN  /\ call_history' = r.history
        /\ accepted' = IF r.allowed /\ RateLimitConfig(agent_id, tool_id) # << >>
                       THEN Accept(accepted, HistoryKey(agent_id, tool_id), now)
                       ELSE accepted
        /\ answer' = Answer("check_rate_limit", BoolText(r.allowed))
        /\ UNCHANGED <<allowVars, now, forgeVars, tool_approval_required, audit,
                       rate_reads, pureVars, in_flight>>

\* security_policy.py:51-58 a call of check_rate_limit for a configured pair
\* has loaded call_history.json
RateRead(c, agent_id, tool_id) ==
    /\ rate_reads[c] = << >>
    /\ RateLimitConfig(agent_id, tool_id) # << >>
    /\ rate_reads' = [rate_reads EXCEPT ![c] =
                         << [agent_id |-> agent_id, tool_id |-> tool_id,
                             history |-> call_history] >>]
    /\ UNCHANGED <<allowVars, now, answer, forgeVars, tool_approval_required,
                   call_history, audit, accepted, pureVars, in_flight>>

\* security_policy.py:60-81 the call counts the recent calls of what it
\* loaded and, when it accepts, writes the whole history back
RateWrite(c) ==
    /\ rate_reads[c] # << >>
    /\ LET call == rate_reads[c][1]
           r == check_rate_limit(call.history, call.agent_id, call.tool_id)
       IN  /\ call_history' = IF r.allowed THEN r.history ELSE call_history
           /\ accepted' = IF r.allowed
                          THEN Accept(accepted, HistoryKey(call.agent_id, call.tool_id), now)
                          ELSE accepted
           /\ answer' = Answer("check_rate_limit", BoolText(r.allowed))
    /\ rate_reads' = [rate_reads EXCEPT ![c] = << >>]
    /\ UNCHANGED <<allowVars, now, forgeVars, tool_approval_required, audit, pureVars, in_flight>>

\* calls of check_rate_limit one after the other, as time passes
RateNext ==
    \/ \E pair \in RatePairs : CheckRateLimit(pair.agent_id, pair.tool_id)
    \/ Tick

SpecRate == Init /\ [][RateNext]_vars

\* calls of check_rate_limit by concurrent callers, for the pairs of the
\* agents
ConcurrentRateNext ==
    \/ \E c \in Callers, a \in Agents, t \in ToolIds : RateRead(c, a, t)
    \/ \E c \in Callers : RateWrite(c)
    \/ Tick

SpecRateConcurrent == Init /\ [][ConcurrentRateNext]_vars

----------------------------------------------------------------------------
(* _audit_log called by concurrent calls of call_tool *)

\* _audit_log that writes at the end of the file it saw when it opened it
audit_write_AtOpenedOffset(log, seen, entry) == Append(SubSeq(log, 1, seen), entry)

\* tool_broker.py:62-63 open(_AUDIT_LOG_PATH, "a") and one f.write of the
\* entry's JSON and its newline: the line goes to the end the file has when
\* the write is made, whatever length the file had (seen) when it was opened
audit_write(log, seen, entry) == Append(log, entry)

\* the entries of the callers' audit writes that are still to be made
Unwritten == { c \in Callers : in_flight[c] # << >> }

RECURSIVE Pending(_)
Pending(callers) ==
    IF callers = {} THEN 0
    ELSE LET c == CHOOSE x \in callers : TRUE
         IN  Len(in_flight[c].entries) + Pending(callers \ {c})

\* tool_broker.py:138 a caller runs call_tool up to its first audit entry:
\* the entries the call writes are those call_tool adds to the log
CallBegin(c, tool_id, args, agent_id, transport) ==
    LET r == call_tool(allowlists, pending_approvals, call_history, << >>,
                       tool_approval_required, tool_id, args, agent_id, transport)
    IN  /\ in_flight[c] = << >>
        /\ r.log # << >>
        /\ Len(audit) + Pending(Unwritten) + Len(r.log) <= MaxAudit
        /\ Cardinality(DOMAIN pending_approvals) < MaxRequests
        /\ allowlists' = r.al
        /\ pending_approvals' = r.pa
        /\ call_history' = r.history
        /\ in_flight' = [in_flight EXCEPT ![c] =
                            [entries |-> r.log, opened |-> FALSE, seen |-> 0,
                             ret |-> r.ret]]
        /\ UNCHANGED <<now, answer, tool_approval_required, audit, forgeVars,
                       rateVars, pureVars>>

\* tool_broker.py:60-62 _audit_log opens the file to append
AuditOpen(c) ==
    /\ in_flight[c] # << >>
    /\ ~in_flight[c].opened
    /\ in_flight' = [in_flight EXCEPT ![c].opened = TRUE, ![c].seen = Len(audit)]
    /\ UNCHANGED <<allowVars, now, answer, tool_approval_required, call_history,
                   audit, forgeVars, rateVars, pureVars>>

\* tool_broker.py:63 _audit_log writes the line and closes the file; after
\* its last entry call_tool returns
AuditWrite(c) ==
    /\ in_flight[c] # << >>
    /\ in_flight[c].opened
    /\ audit' = audit_write(audit, in_flight[c].seen, Head(in_flight[c].entries))
    /\ IF Len(in_flight[c].entries) = 1
       THEN /\ in_flight' = [in_flight EXCEPT ![c] = << >>]
            /\ answer' = Answer("call_tool", in_flight[c].ret)
       ELSE /\ in_flight' = [in_flight EXCEPT ![c].entries = Tail(@),
                                              ![c].opened = FALSE]
            /\ answer' = answer
    /\ UNCHANGED <<allowVars, now, tool_approval_required, call_history,
                   forgeVars, rateVars, pureVars>>

\* concurrent calls of call_tool, each writing its audit entries
AuditNext ==
    \/ \E c \in Callers, t \in CallToolIds, args \in ArgsChoices, a \in CallAgents,
          tr \in TransportResults : CallBegin(c, t, args, a, tr)
    \/ \E c \in Callers : AuditOpen(c)
    \/ \E c \in Callers : AuditWrite(c)

SpecAudit == Init /\ [][AuditNext]_vars

----------------------------------------------------------------------------
(* The store files while they are written *)

\* whether a writer has opened the file with mode 'w', which empties it, and
\* has not yet dumped its content: forge_approval.py:148, security_policy.py:78
Truncated(file, id) ==
    \E c \in Callers :
        /\ in_flight[c] # << >>
        /\ in_flight[c].file = file
        /\ in_flight[c].id = id

\* forge_approval.py:219-236 and 148 reject has read a pending proposal and
\* _save_proposal has opened its file to write the rejected record
SaveOpen(c, proposal_id, rejected_by, reason) ==
    LET r == reject(proposals, proposal_id, rejected_by, reason) IN
    /\ in_flight[c] = << >>
    /\ ~Truncated("proposal", proposal_id)
    /\ r.ret = "True"
    /\ in_flight' = [in_flight EXCEPT ![c] =
                        [file |-> "proposal", id |-> proposal_id,
                         content |-> r.store[proposal_id]]]
    /\ UNCHANGED <<forgeVars, allowVars, now, answer, tool_approval_required,
                   call_history, audit, rateVars, pureVars>>

\* security_policy.py:51-78 check_rate_limit has read call_history.json,
\* accepted the call and opened the file to write the history back
HistoryOpen(c, agent_id, tool_id) ==
    LET r == check_rate_limit(call_history, agent_id, tool_id) IN
    /\ in_flight[c] = << >>
    /\ ~Truncated("call_history", << >>)
    /\ RateLimitConfig(agent_id, tool_id) # << >>
    /\ r.allowed
    /\ in_flight' = [in_flight EXCEPT ![c] =
                        [file |-> "call_history", id |-> << >>,
                         key |-> HistoryKey(agent_id, tool_id),
                         content |-> r.history]]
    /\ UNCHANGED <<forgeVars, allowVars, now, answer, tool_approval_required,
                   call_history, audit, rateVars, pureVars>>

\* forge_approval.py:149 and security_policy.py:79 json.dump writes the
\* content and the file is closed
Dump(c) ==
    /\ in_flight[c] # << >>
    /\ IF in_flight[c].file = "proposal"
       THEN /\ proposals' = SaveProposal(proposals, in_flight[c].content)
            /\ last' = Op("reject", in_flight[c].id, "pending", "True")
            /\ UNCHANGED <<call_history, accepted, answer>>
       ELSE /\ call_history' = in_flight[c].content
            /\ accepted' = Accept(accepted, in_flight[c].key, now)
            /\ answer' = Answer("check_rate_limit", "True")
            /\ UNCHANGED <<proposals, last>>
    /\ in_flight' = [in_flight EXCEPT ![c] = << >>]
    /\ UNCHANGED <<vets, vetted, allowVars, now, tool_approval_required, audit,
                   rate_reads, pureVars>>

\* forge_approval.py:151-158 get_proposal opens an existing proposal file and
\* reads it; security_policy.py:54-56 check_rate_limit does the same with
\* call_history.json.  What the reader finds in the file:
ReadFile(file, id) ==
    /\ file = "proposal" => id \in DOMAIN proposals
    /\ file = "call_history" => id = << >> /\ call_history # << >>
    /\ returned' = << [file |-> file, id |-> id, empty |-> Truncated(file, id)] >>
    /\ UNCHANGED <<forgeVars, allowVars, now, answer, tool_approval_required,
                   call_history, audit, rateVars, probe, in_flight>>

FilesNext ==
    \/ \E s \in ServerNames : ProposeServer(s)
    \/ \E c \in Callers, i \in ProposalIds, u \in Users, r \in Reasons : SaveOpen(c, i, u, r)
    \/ \E c \in Callers, a \in Agents, t \in ToolIds : HistoryOpen(c, a, t)
    \/ \E c \in Callers : Dump(c)
    \/ \E i \in ProposalIds \cup {<< >>}, file \in {"proposal", "call_history"} :
          ReadFile(file, i)
    \/ Tick

SpecFiles == Init /\ [][FilesNext]_vars

----------------------------------------------------------------------------
(* ForgeApproval on an approval directory with a corrupt proposal file *)

\* the proposals of two servers
DirServers == { <<Alphabet[1]>>, <<Alphabet[2]>> }
DirIds == { IdOf(s) : s \in DirServers }

\* what the file of a proposal id holds: nothing (no file), a well-formed
\* pending or approved record, or text that is not JSON
FileStates == {"absent", "pending", "approved", "corrupt"}
Directories == [DirIds -> FileStates]

\* the records of the well-formed files
RecordsOf(dir) ==
    [i \in { j \in DirIds : dir[j] \in {"pending", "approved"} } |->
        LET s == CHOOSE s \in DirServers : IdOf(s) = i
        IN  [StoredPending(s, "pass") EXCEPT !.status = dir[i]]]

JSONDecodeError == "JSONDecodeError"

\* forge_approval.py:151-158 get_proposal: json.load of an existing file
\* raises JSONDecodeError on text that is not JSON, and nothing catches it
get_proposal(dir, proposal_id) ==
    IF dir[proposal_id] = "corrupt" THEN JSONDecodeError
    ELSE IF GetProposal(RecordsOf(dir), proposal_id) = << >> THEN None
    ELSE "found"

\* vet, approve and reject begin with get_proposal (forge_approval.py:106,
\* 183, 226): what they return, or the exception that leaves them
vet(dir, proposal_id) ==
    IF dir[proposal_id] = "corrupt" THEN JSONDecodeError
    ELSE IF VetBegin(RecordsOf(dir), proposal_id).vet = Idle THEN None
    ELSE "running"

approve_in(dir, proposal_id, approved_by, override_vetting) ==
    IF dir[proposal_id] = "corrupt" THEN JSONDecodeError
    ELSE approve(RecordsOf(dir), proposal_id, approved_by, override_vetting).ret

reject_in(dir, proposal_id, rejected_by, reason) ==
    IF dir[proposal_id] = "corrupt" THEN JSONDecodeError
    ELSE reject(RecordsOf(dir), proposal_id, rejected_by, reason).ret

\* forge_approval.py:160-168 list_pending loads every file of the directory
list_pending(dir) ==
    IF \E i \in DirIds : dir[i] = "corrupt"
    THEN [raised |-> TRUE, pending |-> {}]
    ELSE [raised |-> FALSE, pending |-> { i \in DirIds : dir[i] = "pending" }]

\* the orders in which glob can yield the files of the directory
GlobOrders(dir) ==
    LET files == { i \in DirIds : dir[i] # "absent" }
    IN  { order \in [1..Cardinality(files) -> files] :
            \A i \in files : \E k \in DOMAIN order : order[k] = i }

\* forge_approval.py:241-253 is_approved loads the files in glob's order and
\* returns True at the first approved record of the server
RECURSIVE is_approved_in(_, _, _)
is_approved_in(dir, order, server_name) ==
    IF order = << >> THEN "False"
    ELSE IF dir[Head(order)] = "corrupt" THEN JSONDecodeError
    ELSE IF dir[Head(order)] = "approved" /\ Head(order) = IdOf(server_name) THEN "True"
    ELSE is_approved_in(dir, Tail(order), server_name)

InitDirectory ==
    /\ InitOthers
    /\ probe \in Directories
    /\ returned = << >>

Called(op, id, ret) == [op |-> op, id |-> id, ret |-> ret]

\* one call on the directory
CallOnProposal(proposal_id) ==
    /\ returned = << >>
    /\ \E r \in { Called("get_proposal", proposal_id, get_proposal(probe, proposal_id)),
                  Called("vet", proposal_id, vet(probe, proposal_id)),
                  Called("approve", proposal_id,
                         approve_in(probe, proposal_id, "alice", FALSE)),
                  Called("reject", proposal_id,
                         reject_in(probe, proposal_id, "alice", "unwanted")) } :
          returned' = << r >>
    /\ OthersUnchanged

CallListPending ==
    /\ returned = << >>
    /\ returned' = << Called("list_pending", list_pending(probe).pending,
                             IF list_pending(probe).raised THEN JSONDecodeError ELSE "ok") >>
    /\ OthersUnchanged

CallIsApproved(server_name) ==
    /\ returned = << >>
    /\ \E order \in GlobOrders(probe) :
          returned' = << Called("is_approved", IdOf(server_name),
                                is_approved_in(probe, order, server_name)) >>
    /\ OthersUnchanged

DirectoryNext ==
    \/ \E i \in DirIds : CallOnProposal(i)
    \/ CallListPending
    \/ \E s \in DirServers : CallIsApproved(s)

SpecDirectory == InitDirectory /\ [][DirectoryNext]_vars

----------------------------------------------------------------------------
(* propose_server's proposal id *)

\* the values propose_server is called with: names with and without a colon,
\* and a version that is None, a number or the word None
ProposedNames == { <<"a">>, <<"a", ":", "b">> }
ProposedSources == { <<"b">>, <<"c">>, <<"b", ":", "c">> }
ProposedSourceIds == { <<"p">>, <<"c", ":", "p">> }
ProposedVersions == { << >>, << <<"1">> >>, << <<"N", "o", "n", "e">> >> }
ProposedKeys ==
    [server_name : ProposedNames, source : ProposedSources,
     source_id : ProposedSourceIds, version : ProposedVersions]

InitPropose ==
    /\ InitOthers
    /\ probe \in [first : ProposedKeys, second : ProposedKeys]
    /\ returned = << >>

\* forge_approval.py:50-56 the ids of the records two calls of propose_server
\* write
ProposeBoth ==
    /\ returned = << >>
    /\ returned' =
          << [first |-> NewProposal(probe.first.server_name, probe.first.source,
                                    probe.first.source_id, probe.first.version).id,
              second |-> NewProposal(probe.second.server_name, probe.second.source,
                                     probe.second.source_id, probe.second.version).id] >>
    /\ OthersUnchanged

SpecPropose == InitPropose /\ [][ProposeBoth]_vars

----------------------------------------------------------------------------
(* approve, reject and vet called concurrently on one proposal *)

\* what a caller holds of its approve or reject call: after get_proposal and
\* the checks it is at "read" with the record it is about to save, after
\* _save_proposal (or a failed check) it is at "returned" with its result
Decision(op, proposal_id, at, copy, ret) ==
    [op |-> op, id |-> proposal_id, at |-> at, copy |-> copy, ret |-> ret]

\* where the call is once get_proposal and the checks have run on the store:
\* a call that passes them has changed its copy in memory and not saved it
AfterRead(op, proposal_id, r, success) ==
    IF r.ret = success
    THEN Decision(op, proposal_id, "read", <<r.store[proposal_id]>>, r.ret)
    ELSE Decision(op, proposal_id, "returned", <<>>, r.ret)

\* forge_approval.py:183-215 approve up to the call of _save_proposal
ApproveRead(c, proposal_id, approved_by, override_vetting) ==
    /\ in_flight[c] = << >>
    /\ in_flight' = [in_flight EXCEPT ![c] =
          AfterRead("approve", proposal_id,
                    approve(proposals, proposal_id, approved_by, override_vetting),
                    "ok")]
    /\ UNCHANGED <<forgeVars, allowVars, now, answer, tool_approval_required,
                   call_history, audit, rateVars, pureVars>>

\* forge_approval.py:226-236 reject up to the call of _save_proposal
RejectRead(c, proposal_id, rejected_by, reason) ==
    /\ in_flight[c] = << >>
    /\ in_flight' = [in_flight EXCEPT ![c] =
          AfterRead("reject", proposal_id,
                    reject(proposals, proposal_id, rejected_by, reason),
                    "True")]
    /\ UNCHANGED <<forgeVars, allowVars, now, answer, tool_approval_required,
                   call_history, audit, rateVars, pureVars>>

\* forge_approval.py:216-217 and 238-239 _save_proposal writes the caller's
\* copy over the file, and the call reports success
DecisionSave(c) ==
    /\ in_flight[c] # << >>
    /\ in_flight[c].at = "read"
    /\ proposals' = SaveProposal(proposals, in_flight[c].copy[1])
    /\ last' = Op(in_flight[c].op, in_flight[c].id, "pending", in_flight[c].ret)
    /\ in_flight' = [in_flight EXCEPT ![c].at = "returned"]
    /\ UNCHANGED <<vets, vetted, allowVars, now, answer, tool_approval_required,
                   call_history, audit, rateVars, pureVars>>

DecideNext ==
    \/ \E c \in Callers, i \in ProposalIds, u \in Users, o \in BOOLEAN :
          ApproveRead(c, i, u, o)
    \/ \E c \in Callers, i \in ProposalIds, u \in Users, r \in Reasons :
          RejectRead(c, i, u, r)
    \/ \E c \in Callers : DecisionSave(c)
    \/ \E w \in Workers, i \in ProposalIds : VetStart(w, i)
    \/ \E w \in Workers, v \in Verdicts : VetFinish(w, v)

\* each caller makes one approve or reject call, on an approval directory
\* that holds pending proposals, while a worker may run vet
SpecDecide == InitStored /\ [][DecideNext]_vars

----------------------------------------------------------------------------
(* Claims about the proposal workflow *)

IsTerminal(store, i) == i \in DOMAIN store /\ store[i].status \in Terminal

\* C1: once a proposal is approved or rejected, every later vet, approve or
\* reject on its id fails with an invalid-state error and leaves the stored
\* proposal unchanged.  (reject reports failure as False.)
C1_TerminalProposalIsFrozen ==
    [][ \A i \in ProposalIds :
          IsTerminal(proposals, i) =>
            /\ \A w \in Workers :
                 VetStart(w, i) =>
                    /\ proposals' = proposals
                    /\ last'.result = "InvalidState"
            /\ \A u \in Users, o \in BOOLEAN :
                 Approve(i, u, o) =>
                    /\ proposals' = proposals
                    /\ last'.result = "InvalidState"
            /\ \A u \in Users, r \in Reasons :
                 Reject(i, u, r) =>
                    /\ proposals' = proposals
                    /\ last'.result = "False"
      ]_vars

\* C2: a proposal id whose stored status has been approved or rejected never
\* has status pending again, whatever operation runs next.
C2_NoReturnToPending ==
    [][ \A i \in ProposalIds :
          IsTerminal(proposals, i) =>
            (i \in DOMAIN proposals' /\ proposals'[i].status # "pending")
      ]_vars

\* C3: when a vet that read a pending proposal ends with verdict fail, the
\* stored proposal is rejected by "vetting_pipeline" in that same write; with
\* verdict pass or warn its status is pending and vetting_status is the verdict.
C3_VetAppliesVerdict ==
    [][ \A w \in Workers, v \in Verdicts :
          (VetFinish(w, v) /\ vets[w][1].proposal.status = "pending") =>
            LET q == proposals'[vets[w][1].id] IN
            /\ q.vetting_status = v
            /\ v = "fail" => /\ q.status = "rejected"
                             /\ q.rejected_by = "vetting_pipeline"
            /\ v # "fail" => q.status = "pending"
      ]_vars

C3_Witness ==
    /\ last.op = "vet" /\ last.pre = "pending" /\ last.result = "fail"
    /\ proposals[last.id].status = "rejected"
    /\ proposals[last.id].rejected_by = "vetting_pipeline"

\* C4: approve without override on a pending proposal on which vet has never
\* run returns the vetting-required error and changes nothing that is stored.
C4_ApproveNeedsVetting ==
    [][ \A i \in ProposalIds, u \in Users :
          ( /\ Approve(i, u, FALSE)
            /\ i \in DOMAIN proposals
            /\ proposals[i].status = "pending"
            /\ i \notin vetted ) =>
              /\ last'.result = "VettingRequired"
              /\ proposals' = proposals
      ]_vars

C4_Witness ==
    /\ last.op = "approve" /\ last.pre = "pending"
    /\ last.result = "VettingRequired"
    /\ last.id \notin vetted
    /\ proposals[last.id].status = "pending"
    /\ proposals[last.id].approved_by = None

C5_WitnessVettingFailed ==
    /\ last.op = "approve" /\ last.pre = "pending"
    /\ last.result = "VettingFailed"
    /\ proposals[last.id].status = "pending"

----------------------------------------------------------------------------
(* Claims about the allowlist and the approval requests *)

DenyListed(al, agent_id, tool_id) ==
    tool_id \in ConfigList(al, agent_id, "deny") \cup ConfigList(al, Default, "deny")

\* C8: is_tool_allowed(agent, x) is false whenever x is in the agent's deny
\* list or in the default deny list, whatever the allow lists hold, globs
\* included.
C8_DenyOverridesAllow ==
    \A a \in Agents \cup {Default}, x \in ToolIds :
        DenyListed(allowlists, a, x) => ~is_tool_allowed(allowlists, a, x)

IsPendingRequest(pa, r) == r \in DOMAIN pa /\ pa[r].status = "pending"

OtherRequestsUnchanged(r) ==
    /\ DOMAIN pending_approvals' = DOMAIN pending_approvals
    /\ \A o \in DOMAIN pending_approvals \ {r} :
          pending_approvals'[o] = pending_approvals[o]

\* C9: approve_request and reject_request change state only for an existing
\* pending request: that request alone becomes approved (its tool is then in
\* its agent's allow list, nothing else of the allowlists changes) or rejected,
\* and the call returns true; otherwise the call returns false and requests and
\* allowlists are unchanged.
C9_ResolveTouchesOneRequest ==
    [][ \A r \in RequestIds :
          /\ ApproveRequest(r) =>
               IF IsPendingRequest(pending_approvals, r)
               THEN LET req == pending_approvals[r]
                        a   == req.agent_id
                    IN  /\ answer'.ret = "True"
                        /\ pending_approvals'[r] = [req EXCEPT !.status = "approved"]
                        /\ OtherRequestsUnchanged(r)
                        /\ DOMAIN allowlists' = DOMAIN allowlists \cup {a}
                        /\ allowlists'[a].allow =
                              ConfigList(allowlists, a, "allow") \cup {req.tool_id}
                        /\ allowlists'[a].deny = ConfigList(allowlists, a, "deny")
                        /\ \A b \in DOMAIN allowlists \ {a} :
                              allowlists'[b] = allowlists[b]
               ELSE /\ answer'.ret = "False"
                    /\ UNCHANGED <<allowlists, pending_approvals>>
          /\ \A reason \in Reasons :
               RejectRequest(r, reason) =>
                 IF IsPendingRequest(pending_approvals, r)
                 THEN /\ answer'.ret = "True"
                      /\ pending_approvals'[r] =
                            [pending_approvals[r] EXCEPT !.status = "rejected",
                                                         !.reason = reason]
                      /\ OtherRequestsUnchanged(r)
                      /\ allowlists' = allowlists
                 ELSE /\ answer'.ret = "False"
                      /\ UNCHANGED <<allowlists, pending_approvals>>
      ]_vars

\* one request approved, its tool allowed for its agent, another still pending
C9_Witness ==
    /\ answer = Answer("approve_request", "True")
    /\ \E r, o \in DOMAIN pending_approvals :
          /\ r # o
          /\ pending_approvals[r].status = "approved"
          /\ pending_approvals[r].agent_id \in DOMAIN allowlists
          /\ pending_approvals[r].tool_id \in
                allowlists[pending_approvals[r].agent_id].allow
          /\ pending_approvals[o].status = "pending"

Expired(request) == now - request.requested_at >= ApprovalTTL

\* C10: a request still pending when its time-to-live has elapsed is expired:
\* get_pending_approvals does not return it, and approve_request on it returns
\* false and adds nothing to the allowlists.
C10_ExpiredRequestIsDead ==
    /\ [] (\A request \in get_pending_approvals(pending_approvals) : ~Expired(request))
    /\ [][ \A r \in RequestIds :
             ( /\ ApproveRequest(r)
               /\ IsPendingRequest(pending_approvals, r)
               /\ Expired(pending_approvals[r]) ) =>
                  /\ answer'.ret = "False"
                  /\ allowlists' = allowlists
         ]_vars

----------------------------------------------------------------------------
(* Claims about the runtime call policy *)

Dispatched == answer'.op = "call_tool" /\ answer'.ret \in TransportResults

\* C6: call_tool hands a call to the transport only for tools of approved
\* servers: while the proposal of a server is pending or rejected, no tool
\* of that server is dispatched.
C6_DispatchOnlyApprovedServers ==
    [][\A t \in CallToolIds, args \in ArgsChoices, a \in CallAgents,
          tr \in TransportResults :
          (CallTool(t, args, a, tr) /\ Dispatched) =>
             ~\E id \in DOMAIN proposals :
                 /\ proposals[id].server_name = ServerOf(t)
                 /\ proposals[id].status \in {"pending", "rejected"}]_vars

\* C7: every call_tool, a call without agent_id counting as agent "default",
\* is dispatched only if is_tool_allowed holds for the agent; a call that is
\* not allowed returns approval-required with a new pending request when
\* tool_approval_required is set, and the hard deny when it is not.
C7_AllowlistCheckedFirst ==
    [][\A t \in CallToolIds, args \in ArgsChoices, a \in CallAgents,
          tr \in TransportResults :
          CallTool(t, args, a, tr) =>
             LET agent == IF a = None THEN Default ELSE a
                 allowed == is_tool_allowed(allowlists, agent, t)
             IN  /\ Dispatched => allowed
                 /\ (~allowed /\ tool_approval_required) =>
                       /\ answer'.ret = "approval_required"
                       /\ \E r \in DOMAIN pending_approvals' \ DOMAIN pending_approvals :
                             /\ pending_approvals'[r].status = "pending"
                             /\ pending_approvals'[r].agent_id = agent
                             /\ pending_approvals'[r].tool_id = t
                 /\ (~allowed /\ ~tool_approval_required) =>
                       answer'.ret = "not_allowed"]_vars

C12_OneAuditEntryPerCall ==
    [][\A t \in CallToolIds, args \in ArgsChoices, a \in CallAgents,
          tr \in TransportResults :
          CallTool(t, args, a, tr) =>
             /\ Len(audit') = Len(audit) + 1
             /\ SubSeq(audit', 1, Len(audit)) = audit]_vars

----------------------------------------------------------------------------
(* Claims about the rate limit *)

TimesOf(history, key) == IF key \in DOMAIN history THEN history[key] ELSE << >>

\* how many of the timestamps lie in the window of length w that starts at t
InWindow(times, t, w) ==
    Cardinality({ i \in 1..Len(times) : t <= times[i] /\ times[i] < t + w })

\* how many of the timestamps are less than w ago
Recent(times, w) == Cardinality({ i \in 1..Len(times) : now - times[i] < w })

ConfiguredPairs == { pair \in RatePairs : RateLimitConfig(pair.agent_id, pair.tool_id) # << >> }

\* no window of window_seconds holds more than max_calls accepted calls
WindowLimitHolds ==
    \A pair \in ConfiguredPairs :
        LET limit_config == RateLimitConfig(pair.agent_id, pair.tool_id)[1]
            key == HistoryKey(pair.agent_id, pair.tool_id)
        IN  \A t \in 0..MaxTime :
               InWindow(TimesOf(accepted, key), t, limit_config.window_seconds)
                  <= limit_config.max_calls

\* C13: a call of check_rate_limit for a configured pair is rejected exactly
\* when at least max_calls earlier accepted calls lie within the last
\* window_seconds; a rejected call leaves the stored history unchanged, an
\* accepted call appends its timestamp, the stored history of a key never
\* holds more than max_calls entries, and no window holds more than
\* max_calls accepted calls.
C13_RateLimitWindow ==
    /\ [](WindowLimitHolds
          /\ \A pair \in ConfiguredPairs :
                Len(TimesOf(call_history, HistoryKey(pair.agent_id, pair.tool_id)))
                   <= RateLimitConfig(pair.agent_id, pair.tool_id)[1].max_calls)
    /\ [][\A pair \in ConfiguredPairs :
            CheckRateLimit(pair.agent_id, pair.tool_id) =>
               LET limit_config == RateLimitConfig(pair.agent_id, pair.tool_id)[1]
                   key == HistoryKey(pair.agent_id, pair.tool_id)
                   earlier == Recent(TimesOf(accepted, key), limit_config.window_seconds)
                   stored == TimesOf(call_history', key)
               IN  /\ (answer'.ret = "False") <=> (earlier >= limit_config.max_calls)
                   /\ answer'.ret = "False" => call_history' = call_history
                   /\ answer'.ret = "True" =>
                         /\ stored # << >>
                         /\ stored[Len(stored)] = now
                         /\ Len(stored) = earlier + 1
                         /\ \A k \in DOMAIN call_history \ {key} :
                               k \in DOMAIN call_history'
                               /\ call_history'[k] = call_history[k]]_vars

\* a call was rejected, and after the window had passed one was accepted
C13_Witness ==
    /\ answer = Answer("check_rate_limit", "True")
    /\ \E pair \in ConfiguredPairs :
          /\ Len(TimesOf(accepted, HistoryKey(pair.agent_id, pair.tool_id))) >= 2
          /\ Len(TimesOf(call_history, HistoryKey(pair.agent_id, pair.tool_id))) = 1

\* C14: under any interleaving of concurrent check_rate_limit calls, every
\* accepted call that is still within its window is in the persisted
\* history, so the limit of each key holds and no call alters the history
\* of another key.
C14_NoLostUpdate ==
    /\ WindowLimitHolds
    /\ \A pair \in ConfiguredPairs :
          LET limit_config == RateLimitConfig(pair.agent_id, pair.tool_id)[1]
              key == HistoryKey(pair.agent_id, pair.tool_id)
          IN  \A t \in 0..MaxTime :
                 now - t < limit_config.window_seconds =>
                    InWindow(TimesOf(accepted, key), t, 1)
                       <= InWindow(TimesOf(call_history, key), t, 1)

----------------------------------------------------------------------------
(* Claims about the budget *)

\* the calls of the agent that call_tool has dispatched, by the audit log
DispatchedCalls(agent_id) ==
    Cardinality({ i \in 1..Len(audit) :
                    audit[i].event = "call_tool" /\ audit[i].agent_id = agent_id })

\* C15: once the calls dispatched for an agent number max_api_calls, every
\* further call_tool of that agent is rejected and not dispatched.
C15_BudgetCapsDispatchedCalls ==
    [][\A t \in CallToolIds, args \in ArgsChoices, a \in CallAgents,
          tr \in TransportResults :
          LET aid == IF a = None THEN Default ELSE a
          IN  (/\ CallTool(t, args, a, tr)
               /\ DispatchedCalls(aid) >= BudgetConfig(aid).max_api_calls) =>
                 /\ ~Dispatched
                 /\ answer'.ret \in {"approval_required", "not_allowed",
                                     "rate_limit", "argument", "budget"}]_vars

----------------------------------------------------------------------------
(* Claims about classify_action *)

ScoreOfProbe(action_class) ==
    Score(probe.tool_id \o <<" ">> \o JsonDumps(probe.args), action_class)

AllClasses == {"read", "write", "network", "credential", "exec"}

\* C16: classify_action returns the class with the strictly highest count
\* of matched keywords, and read when all counts are zero or when two or
\* more classes share the highest count.
C16_ClassifyTiesAreRead ==
    returned # << >> =>
       IF \E c \in AllClasses :
             \A d \in AllClasses \ {c} : ScoreOfProbe(d) < ScoreOfProbe(c)
       THEN \A d \in AllClasses \ {returned[1]} : ScoreOfProbe(d) < ScoreOfProbe(returned[1])
       ELSE returned[1] = "read"

----------------------------------------------------------------------------
(* Claims about VettingReport.evaluate *)

Rank(verdict) == CASE verdict = "pass" -> 0 [] verdict = "warn" -> 1 [] verdict = "fail" -> 2

\* C17: evaluate is monotone in the findings: when every finding of report
\* A is also in report B, the verdict for B is never better than the one
\* for A, in the order pass < warn < fail.
C17_EvaluateMonotone ==
    returned # << >> => Rank(returned[1].a) <= Rank(returned[1].b)

\* the verdict got worse from one report to the larger one
C17_Witness ==
    /\ returned # << >>
    /\ returned[1].a = "warn"
    /\ returned[1].b = "fail"
    /\ \E k \in 1..Len(Kinds) : probe.a[k] > 0
    /\ \E k \in 1..Len(Kinds) : probe.a[k] < probe.b[k]

\* the number of findings of the scanners and of the severities
RECURSIVE NumberUpTo(_, _, _, _)
NumberUpTo(n, scanners, severities, k) ==
    IF k = 0 THEN 0
    ELSE (IF Kinds[k].scanner \in scanners /\ Kinds[k].severity \in severities
          THEN n[k] ELSE 0)
         + NumberUpTo(n, scanners, severities, k - 1)

KindScanners == { Kinds[k].scanner : k \in 1..Len(Kinds) }
KindSeverities == { Kinds[k].severity : k \in 1..Len(Kinds) }

Number(n, scanners, severities) == NumberUpTo(n, scanners, severities, Len(Kinds))

PolicyFlag(policy, key) == key \in DOMAIN policy /\ policy[key]
PolicyMax(policy, key, default) == IF key \in DOMAIN policy THEN policy[key] ELSE default

\* the threshold reasons that hold for the report and the policy
ReasonsThatHold(n, policy) ==
    LET critical == Number(n, KindScanners, {SevCritical})
        high == Number(n, KindScanners, {SevHigh})
        medium == Number(n, KindScanners, {SevMedium})
        secrets == Number(n, {"gitleaks"}, KindSeverities)
        malware == Number(n, {"clamav"}, {SevCritical})
        injections == Number(n, {"prompt_injection"}, KindSeverities)
    IN  (IF malware > 0 /\ PolicyFlag(policy, "auto_reject_on_malware")
         THEN {"Malware"} ELSE {})
        \cup (IF critical > PolicyMax(policy, "max_critical", 0)
                 /\ PolicyFlag(policy, "auto_reject_on_critical")
              THEN {"Critical"} ELSE {})
        \cup (IF high > PolicyMax(policy, "max_high", 2) THEN {"High"} ELSE {})
        \cup (IF medium > PolicyMax(policy, "max_medium", 10) THEN {"Medium"} ELSE {})
        \cup (IF secrets > PolicyMax(policy, "max_secrets", 0) THEN {"Secrets"} ELSE {})
        \cup (IF injections > PolicyMax(policy, "max_injection_signals", 1)
              THEN {"Injection"} ELSE {})

\* C18: evaluate returns fail exactly when a threshold reason holds, else
\* warn exactly when there is a high-severity or an injection finding, else
\* pass; verdict_reasons lists exactly the reasons that hold, each once.
C18_EvaluateVerdict ==
    returned # << >> =>
       LET holds == ReasonsThatHold(probe.n, probe.policy)
           high == Number(probe.n, KindScanners, {SevHigh})
           injections == Number(probe.n, {"prompt_injection"}, KindSeverities)
           listed == returned[1].verdict_reasons
       IN  /\ returned[1].verdict = "fail" <=> holds # {}
           /\ returned[1].verdict = "warn" <=> (holds = {} /\ (high > 0 \/ injections > 0))
           /\ returned[1].verdict = "pass" <=> (holds = {} /\ high = 0 /\ injections = 0)
           /\ { listed[i].kind : i \in 1..Len(listed) } = holds
           /\ Len(listed) = Cardinality(holds)
           /\ (listed # << >>) <=> (returned[1].verdict = "fail")

\* one critical finding under the default policy: fail, with the critical
\* reason
C18_Witness ==
    /\ returned # << >>
    /\ probe.policy = DEFAULT_POLICY
    /\ probe.n[1] = 1
    /\ \A k \in 2..Len(Kinds) : probe.n[k] = 0
    /\ returned[1].verdict = "fail"
    /\ returned[1].verdict_reasons = << Reason("Critical", 1) >>

----------------------------------------------------------------------------
(* Claims about the scanners *)

ResultOf(report, scanner) ==
    report.scanner_results[CHOOSE i \in 1..Len(report.scanner_results) :
                              report.scanner_results[i].scanner = scanner]

NoOtherFinding(env) == env.trivy = << >> /\ env.npm_audit = << >> /\ env.semgrep = << >>

\* C19: a scanner whose binary is missing is in the report with
\* available = false and no findings and adds no verdict reason: without
\* gitleaks, with max_secrets = 0 and no finding of another scanner, the
\* verdict of run_vetting is pass.
C19_MissingScannerIsNoFinding ==
    (returned # << >> /\ "gitleaks" \in probe.missing) =>
       /\ Cardinality({ i \in 1..Len(returned[1].scanner_results) :
                          returned[1].scanner_results[i].scanner = "gitleaks" }) = 1
       /\ ResultOf(returned[1], "gitleaks").available = FALSE
       /\ ResultOf(returned[1], "gitleaks").findings = << >>
       /\ \A i \in 1..Len(returned[1].verdict_reasons) :
             returned[1].verdict_reasons[i].kind # "Secrets"
       /\ NoOtherFinding(probe) =>
             returned[1].verdict = "pass" /\ returned[1].verdict_reasons = << >>

\* vetting has run without gitleaks on a target no scanner finds fault with
C19_Witness ==
    /\ returned # << >>
    /\ "gitleaks" \in probe.missing
    /\ NoOtherFinding(probe)
    /\ DEFAULT_POLICY.max_secrets = 0
    /\ returned[1].verdict = "pass"

NormalizedScale == {SevCritical, SevHigh, SevMedium, SevLow}

\* the severity the scale gives a scanner's word: the word itself, in lower
\* case, when it is on the scale, and medium when it is not
Normalized(word) ==
    IF Lower(word) \in NormalizedScale THEN Lower(word) ELSE SevMedium

\* C20: every finding in a ScanResult has a severity on the scale critical,
\* high, medium, low: a word of Trivy or npm audit that is on the scale is
\* stored as it is, in lower case, and any other word, such as UNKNOWN or
\* moderate, is stored as medium.
C20_SeveritiesAreNormalized ==
    returned # << >> =>
       /\ \A i \in 1..Len(returned[1].scanner_results) :
             \A j \in 1..Len(returned[1].scanner_results[i].findings) :
                returned[1].scanner_results[i].findings[j].severity \in NormalizedScale
       /\ ResultOf(returned[1], "trivy").findings =
             [j \in 1..Len(probe.trivy) |-> [severity |-> Normalized(probe.trivy[j])]]
       /\ ResultOf(returned[1], "npm_audit").findings =
             [j \in 1..Len(probe.npm_audit) |-> [severity |-> Normalized(probe.npm_audit[j])]]

----------------------------------------------------------------------------
(* Claims about broken scanners and the order of the results *)

\* the policy run_vetting works with
PolicyOfProbe == IF probe.policy = << >> THEN DEFAULT_POLICY ELSE probe.policy

\* the policy key that switches the scanner on
SwitchOf(scanner) == IF scanner = "trivy_sbom" THEN "trivy" ELSE scanner

\* whether run_vetting is to run the scanner
Runs(scanner) ==
    /\ Enabled(PolicyOfProbe, SwitchOf(scanner))
    /\ probe.is_image => scanner = "trivy"

ResultsOf(report, scanner) ==
    SelectSeq(report.scanner_results, LAMBDA res : res.scanner = scanner)

\* C21: whatever way the subprocess of an enabled scanner ends, run_vetting
\* returns a verdict among pass, warn and fail and one ScanResult for the
\* scanner; when the subprocess timed out or its output does not decode, that
\* ScanResult has a non-empty error and no finding.
C21_BrokenScannerRecordsError ==
    returned # << >> =>
        /\ returned[1].verdict \in {"pass", "warn", "fail"}
        /\ \A i \in 1..Len(Subprocesses) :
             LET scanner == Subprocesses[i]
                 results == ResultsOf(returned[1], scanner)
             IN  Runs(scanner) =>
                    /\ Len(results) = 1
                    /\ (results[1].available
                        /\ probe.env.outcome[scanner] \in {"timeout", "garbage"}) =>
                          /\ results[1].error # ""
                          /\ results[1].findings = << >>

\* C22: the ScanResults of a report are those of the enabled scanners in the
\* order trivy, trivy_sbom, gitleaks, clamav, npm_audit, pip_audit, semgrep,
\* prompt_injection for a filesystem target, and the one of trivy alone for a
\* container image, however the subprocesses end.
C22_ResultOrderIsFixed ==
    returned # << >> =>
        [i \in 1..Len(returned[1].scanner_results) |->
            returned[1].scanner_results[i].scanner]
        = SelectSeq(ScannerOrder, Runs)

\* a report on an image and one on a directory with a scanner switched off
\* and a subprocess that timed out
C22_Witness ==
    /\ returned # << >>
    /\ \/ /\ probe.is_image
          /\ Len(returned[1].scanner_results) = 1
       \/ /\ ~probe.is_image
          /\ ~Enabled(PolicyOfProbe, "gitleaks")
          /\ probe.env.outcome["trivy"] = "timeout"
          /\ Len(returned[1].scanner_results) = 6

----------------------------------------------------------------------------
(* Claims about the audit log *)

SecretValue == probe.args[1].value

\* C24: no audit entry written by call_tool holds the value of a secret
\* argument in clear, the detail of an argument-validation block included.
C24_NoSecretInAuditEntry ==
    (returned # << >> /\ probe.args \in SecretArgs) =>
        \A i \in 1..Len(returned[1].log) :
            "detail" \in DOMAIN returned[1].log[i] =>
                ~Contains(returned[1].log[i].detail, SecretValue)

\* re.search of password|secret|token|key|auth|bearer|credential in the key,
\* whatever the case
SecretKeyWords ==
    { Password, <<"s", "e", "c", "r", "e", "t">>, Token, <<"k", "e", "y">>,
      <<"a", "u", "t", "h">>, <<"b", "e", "a", "r", "e", "r">>,
      <<"c", "r", "e", "d", "e", "n", "t", "i", "a", "l">> }
IsSecretKey(key) == \E w \in SecretKeyWords : Contains(Lower(key), w)

\* C25: for every payload of the transport with a key matching password,
\* secret, token, key, auth, bearer or credential at any depth, what _redact
\* returns does not hold the original value of that key, and _redact always
\* returns a well-formed payload.
C25_RedactHidesSecretValues ==
    returned # << >> =>
        /\ ~returned[1].raised
        /\ IsSecretKey(probe.key) => ~Contains(returned[1].text, probe.value)

----------------------------------------------------------------------------
(* Claims about the store files *)

\* C26: a reader of a store file that runs while a writer of the same file is
\* at work finds the complete previous content or the complete new content,
\* never an empty or partly written file.
C26_ReaderSeesCompleteFile ==
    returned # << >> => ~returned[1].empty

\* C27: a proposal file with corrupt JSON counts as not found for that
\* record alone: get_proposal, vet, approve and reject on its id report
\* not-found instead of raising, and list_pending and is_approved give the
\* right answer for every well-formed proposal of the directory.
C27_CorruptFileIsNotFound ==
    returned # << >> =>
        LET r == returned[1] IN
        /\ r.ret # JSONDecodeError
        /\ (r.op \in {"get_proposal", "vet"} /\ probe[r.id] = "corrupt") => r.ret = None
        /\ (r.op = "approve" /\ probe[r.id] = "corrupt") => r.ret = "NotFound"
        /\ (r.op = "reject" /\ probe[r.id] = "corrupt") => r.ret = "False"
        /\ r.op = "list_pending" => r.id = { i \in DirIds : probe[i] = "pending" }
        /\ r.op = "is_approved" => (r.ret = "True" <=> probe[r.id] = "approved")

\* C28: two calls of propose_server with the same server_name, source,
\* source_id and version return the same id, and calls that differ in any of
\* the four return different ids.
C28_ProposalIdIsTheKey ==
    returned # << >> =>
        (returned[1].first = returned[1].second <=> probe.first = probe.second)

----------------------------------------------------------------------------
(* Claims about approval while vetting is unfinished or concurrent *)

\* C29: in every reachable state a proposal whose status is approved has
\* vetting_status pass or warn, or carries a vetting_override annotation; so
\* approve never succeeds on the strength of vetting_status "running".
C29_ApprovedMeansVetted ==
    \A i \in DOMAIN proposals :
        proposals[i].status = "approved" =>
            \/ proposals[i].vetting_status \in {"pass", "warn"}
            \/ proposals[i].vetting_override # <<>>

\* C30: whatever the interleaving of concurrent approve, reject and vet calls
\* on a proposal, once approve has reported success the stored status is
\* approved in every later state, and once reject has reported success it is
\* rejected; so the two never both report success and no decision is
\* overwritten by another call's stale copy.
C30_ReportedDecisionIsFinal ==
    \A c \in Callers :
        (in_flight[c] # << >> /\ in_flight[c].at = "returned") =>
            /\ (in_flight[c].op = "approve" /\ in_flight[c].ret = "ok") =>
                  proposals[in_flight[c].id].status = "approved"
            /\ (in_flight[c].op = "reject" /\ in_flight[c].ret = "True") =>
                  proposals[in_flight[c].id].status = "rejected"

====
